---- MODULE Spec2Model ----
(***************************************************************************)
(* Backend of travel-explorer (src/backend/src/index.ts): the credential   *)
(* and session subsystem, the reset-token flow and the per-user data       *)
(* endpoints, as one state machine.                                        *)
(*                                                                         *)
(* Strings whose content the code inspects (trim, toLowerCase, length) are *)
(* sequences of one-character strings; <<>> is the empty string, which is  *)
(* also what String(body?.field || "") yields for a missing field.         *)
(* A nullable column is NULL (<<>>) or <<value>>.                          *)
(*                                                                         *)
(* Node runs each handler on one thread: a handler is atomic between its   *)
(* awaits.  The store (better-sqlite3) and pbkdf2Sync are synchronous, so  *)
(* the only await of the backend routes modelled here is readJsonBody.     *)
(* register, login, request-reset and reset touch no shared state before   *)
(* that await, so their continuation is one action and concurrent requests *)
(* are every order of these actions.  /me/theme and POST /history call     *)
(* requireAuth BEFORE the await: they are two actions with the captured    *)
(* userId held in `pending`.                                               *)
(***************************************************************************)
EXTENDS Integers, Sequences, FiniteSets, Bags, TLC

\* ------------------------------------------------------------- bounds
MaxTokens == 2      \* session tokens makeToken() hands out in a run
MaxTicks == 2       \* clock advances in a run
MaxRows == 3        \* rows of the tables users and searches together, a request
                    \* suspended in readJsonBody counting as the row it may write

\* ------------------------------------------------------------- constants
PBKDF2_ITER == 120000
KEYLEN == 32
DIGEST == "sha256"
MIN_PASSWORD == 6
RESET_TTL == 15 * 60 * 1000

NULL == <<>>

VARIABLES
    users,      \* table users: row i has id i (AUTOINCREMENT, rows never deleted)
    searches,   \* table searches, in insertion order
    sessions,   \* Map token -> userId
    now,        \* Date.now(), milliseconds
    nextToken,  \* index of the next value makeToken() returns
    pending,    \* bag of closures suspended in readJsonBody: [route, userId]
    \* history, written from requests and responses only:
    issuedTo,   \* session token -> user id, as the 200/201 response told the client
    revoked,    \* issued tokens presented to POST /auth/logout
    regs,       \* email -> number of 201 responses to POST /auth/register
    setPw,      \* email -> NULL or << the password most recently set >>
    rst,        \* email -> [cur, prev, used]: the reset token of the latest request-reset
                \* response, the different one of the response before it, and the token
                \* a successful reset has spent since
    ret,        \* the latest application of a pure function: [fn, args, ...result]
    conn,       \* the requests being served: connection -> the position of its handler
                \* and the responses it has written
    OW_KEY,     \* whether process.env.OPENWEATHER_API_KEY was set when the process started
    \* the weather page of one signed-in browser tab:
    page,       \* its React state: city, now, forecast, history, loading, err, favs
    calls,      \* the fetchWeather calls suspended in an await: id -> [q, at, w]
    localStorage, \* key -> the list stored under it
    gestures    \* the number of searches started and favourites added so far

vars == << users, searches, sessions, now, nextToken, pending,
           issuedTo, revoked, regs, setPw, rst, ret, conn, OW_KEY,
           page, calls, localStorage, gestures >>

front == << page, calls, localStorage, gestures >>
back == << users, searches, sessions, now, nextToken, pending,
           issuedTo, revoked, regs, setPw, rst, ret, conn, OW_KEY >>

hist == << issuedTo, revoked, regs, setPw, rst >>

\* ------------------------------------------------------------- strings
RECURSIVE TrimStart(_)
TrimStart(s) == IF s # <<>> /\ Head(s) = " " THEN TrimStart(Tail(s)) ELSE s

RECURSIVE TrimEnd(_)
TrimEnd(s) == IF s # <<>> /\ s[Len(s)] = " " THEN TrimEnd(SubSeq(s, 1, Len(s) - 1)) ELSE s

Trim(s) == TrimEnd(TrimStart(s))

ToLowerCaseKeepsCase(s) == s

LowerChar(c) == CASE c = "A" -> "a" [] c = "B" -> "b" [] OTHER -> c

ToLowerCase(s) == [i \in DOMAIN s |-> LowerChar(s[i])]

\* ------------------------------------------------------------- inputs
EmailInputs == { <<>>, <<"a">>, <<" ", "A">>, <<"b">> }
NameInputs == { <<>>, <<"n">> }
Pw1 == <<"s", "e", "c", "r", "e", "t">>
Pw2 == <<"h", "u", "n", "t", "e", "r">>
PwShort == <<"s", "h", "o", "r", "t">>
PasswordInputs == { <<>>, PwShort, Pw1, Pw2 }
ThemeInputs == { "", "system", "light", "dark", "neon" }
CityInputs == { <<>>, <<" ">>, <<"O", "s", "l", "o", " ">> }
LangInputs == { <<>>, <<"r", "u">>, <<" ", "r", "u">>, <<"d", "e">> }
Salts == { "5a", "c3" }                 \* values of randomBytes(16).toString("hex")
ResetTokens == { <<"e", "1">>, <<"f", "2">> }   \* values of makeToken(16)
ResetTokenInputs == { <<>> } \cup ResetTokens

\* The n-th value of makeToken() is <<n>>: randomBytes(24) is taken collision-free.
\* <<>> is the empty token, <<0>> a well-formed token the server never generated.
NoToken == <<>>
ForgedToken == <<0>>
IssuedTokens == { <<n>> : n \in 1 .. (nextToken - 1) }

\* ------------------------------------------------------------- password codec
\* decimal digits
Digits == << "0", "1", "2", "3", "4", "5", "6", "7", "8", "9" >>
IsDigit(c) == \E d \in DOMAIN Digits : Digits[d] = c
DigitVal(c) == (CHOOSE d \in DOMAIN Digits : Digits[d] = c) - 1
IsDigits(s) == s # <<>> /\ \A k \in DOMAIN s : IsDigit(s[k])

RECURSIVE DecVal(_)
DecVal(s) == IF s = <<>> THEN 0 ELSE 10 * DecVal(SubSeq(s, 1, Len(s) - 1)) + DigitVal(s[Len(s)])

\* `${n}` of a non-negative integer: its decimal digits
RECURSIVE ToDecimal(_)
ToDecimal(n) ==
    IF n < 10 THEN << Digits[n + 1] >> ELSE Append(ToDecimal(n \div 10), Digits[(n % 10) + 1])

\* Number(s) for the decimal notations: blank is 0, digits with an optional sign and
\* an optional fraction are that number, anything else (and "Infinity") is not finite.
\* The value is [finite, integer, val]: val is the integer part, integer says whether
\* the fraction is zero.
NotFinite == [ finite |-> FALSE, integer |-> FALSE, val |-> 0 ]

Unsigned(t) ==
    IF IsDigits(t) THEN [ finite |-> TRUE, integer |-> TRUE, val |-> DecVal(t) ]
    ELSE IF \E k \in DOMAIN t :
                /\ t[k] = "."
                /\ IsDigits(SubSeq(t, 1, k - 1))
                /\ IsDigits(SubSeq(t, k + 1, Len(t)))
    THEN LET k == CHOOSE k \in DOMAIN t : t[k] = "."
         IN  [ finite |-> TRUE, integer |-> DecVal(SubSeq(t, k + 1, Len(t))) = 0,
               val |-> DecVal(SubSeq(t, 1, k - 1)) ]
    ELSE NotFinite

Number(s) ==
    LET t == Trim(s)
    IN  IF t = <<>> THEN [ finite |-> TRUE, integer |-> TRUE, val |-> 0 ]
        ELSE IF Head(t) = "-"
        THEN LET u == Unsigned(Tail(t))
             IN  IF u.finite THEN [ u EXCEPT !.val = 0 - u.val ] ELSE NotFinite
        ELSE Unsigned(t)

\* digests crypto.pbkdf2Sync knows; any other name makes it throw
KnownDigests == { "sha1", "sha256", "sha512" }
MAX_INT32 == 2147483647

\* crypto.pbkdf2Sync throws unless iterations is an integer in 1 .. 2^31-1 and the
\* digest is known
pbkdf2SyncThrows(iter, digest) ==
    \/ ~iter.integer
    \/ iter.val < 1
    \/ iter.val > MAX_INT32
    \/ digest \notin KnownDigests

\* crypto.pbkdf2Sync: a buffer of keylen bytes, an injective function of the arguments
pbkdf2Sync(password, salt, iter, keylen, digest) ==
    [ key |-> << password, salt, iter, digest >>, length |-> keylen ]

\* buf.toString("hex"): two characters a byte; "" is <<>>
toHex(buf) == IF buf.length = 0 THEN <<>> ELSE << buf.key, 2 * buf.length >>

\* Buffer.from(hex, "hex"): a byte for every two characters
fromHexKeepsLength(hex) ==
    IF hex = <<>> THEN [ key |-> <<>>, length |-> 0 ]
    ELSE [ key |-> hex[1], length |-> hex[2] ]

fromHex(hex) ==
    IF hex = <<>> THEN [ key |-> <<>>, length |-> 0 ]
    ELSE [ key |-> hex[1], length |-> hex[2] \div 2 ]

hashPasswordFixedSalt(password, salt) ==
    << "pbkdf2", DIGEST, ToDecimal(PBKDF2_ITER), "5a",
       toHex(pbkdf2Sync(password, "5a", PBKDF2_ITER, KEYLEN, DIGEST)) >>

\* The stored credential `pbkdf2$digest$iter$salt$hash` is the sequence of the fields
\* that split("$") yields.
hashPassword(password, salt) ==
    << "pbkdf2", DIGEST, ToDecimal(PBKDF2_ITER), salt,
       toHex(pbkdf2Sync(password, salt, PBKDF2_ITER, KEYLEN, DIGEST)) >>

\* whether verifyPassword gets as far as pbkdf2Sync and pbkdf2Sync throws
verifyPasswordThrows(password, stored) ==
    IF Len(stored) # 5 THEN FALSE
    ELSE LET digest == stored[2]
             iter == Number(stored[3])
             salt == stored[4]
             hashHex == stored[5]
         IN  IF digest = "" \/ salt = "" \/ hashHex = <<>> \/ ~iter.finite THEN FALSE
             ELSE pbkdf2SyncThrows(iter, digest)

verifyPasswordLengthOnly(password, stored) ==
    IF Len(stored) # 5 THEN FALSE
    ELSE LET calc == pbkdf2Sync(password, stored[4], Number(stored[3]).val, KEYLEN, stored[2])
         IN  stored[5] # <<>> /\ fromHex(stored[5]).length = calc.length

\* the value verifyPassword returns when it does not throw
verifyPassword(password, stored) ==
    IF Len(stored) # 5 THEN FALSE
    ELSE LET digest == stored[2]
             iter == Number(stored[3])
             salt == stored[4]
             hashHex == stored[5]
         IN  IF digest = "" \/ salt = "" \/ hashHex = <<>> \/ ~iter.finite THEN FALSE
             ELSE IF pbkdf2SyncThrows(iter, digest) THEN FALSE
             ELSE LET calc == pbkdf2Sync(password, salt, iter.val, KEYLEN, digest)
                      storedBuf == fromHex(hashHex)
                  IN  IF storedBuf.length # calc.length THEN FALSE
                      ELSE calc = storedBuf

\* makeToken(): the next collision-free random value
makeToken == << nextToken >>

\* ------------------------------------------------------------- store
\* SELECT ... FROM users WHERE email=?  (.get(): first row or undefined)
IdsByEmail(email) == { i \in DOMAIN users : users[i].email = email }

userByEmail(email) ==
    IF IdsByEmail(email) = {} THEN NULL
    ELSE << CHOOSE i \in IdsByEmail(email) : \A j \in IdsByEmail(email) : i <= j >>

\* INSERT INTO users(email, name, password_hash): id AUTOINCREMENT, theme DEFAULT
\* 'system', reset columns NULL
newUser(email, name, password_hash) ==
    [ id |-> Len(users) + 1, email |-> email, name |-> name,
      password_hash |-> password_hash, theme |-> "system",
      reset_token |-> NULL, reset_expires |-> NULL ]

\* ------------------------------------------------------------- sessions
\* the header is absent (<<>>) or << scheme, value >>
getAuthTokenAnyScheme(auth) ==
    IF auth = <<>> THEN NoToken ELSE auth[2]

getAuthToken(auth) ==
    IF auth = <<>> \/ auth[1] # "Bearer" THEN NoToken ELSE auth[2]

\* the userId, or 0 for null (401 already sent)
requireAuth(auth) ==
    LET token == getAuthToken(auth)
    IN  IF token = NoToken \/ token \notin DOMAIN sessions \/ sessions[token] = 0
        THEN 0
        ELSE sessions[token]

sessionsSetNextId(token, userId) ==
    [ t \in DOMAIN sessions \cup {token} |-> IF t = token THEN userId + 1 ELSE sessions[t] ]

sessionsSet(token, userId) ==
    [ t \in DOMAIN sessions \cup {token} |-> IF t = token THEN userId ELSE sessions[t] ]

sessionsDeleteNothing(token) == sessions

sessionsDelete(token) ==
    [ t \in DOMAIN sessions \ {token} |-> sessions[t] ]

\* ------------------------------------------------------------- outcomes
\* what a handler leaves behind: the response and the new shared state
Out(status, body, u, se, s, nt) ==
    [ status |-> status, body |-> body, users |-> u, searches |-> se,
      sessions |-> s, nextToken |-> nt ]

Reply(status, body) == Out(status, body, users, searches, sessions, nextToken)

Err(msg) == [ error |-> msg ]

Unauthorized == Reply(401, Err("Unauthorized"))

\* ------------------------------------------------------------- handlers
\* POST /auth/register, after readJsonBody
register(body, salt) ==
    LET email == ToLowerCase(Trim(body.email))
        name == Trim(body.name)
        password == body.password
    IN  IF email = <<>> \/ name = <<>> \/ password = <<>>
        THEN Reply(400, Err("email, name, password are required"))
        ELSE IF Len(password) < MIN_PASSWORD
        THEN Reply(400, Err("password must be at least 6 characters"))
        ELSE IF userByEmail(email) # NULL
        THEN Reply(409, Err("user already exists"))
        ELSE LET password_hash == hashPassword(password, salt)
                 row == newUser(email, name, password_hash)
                 userId == row.id
                 token == makeToken
             IN  Out(201,
                     [ token |-> token,
                       user |-> [ id |-> userId, email |-> email, name |-> name,
                                  theme |-> "system" ] ],
                     Append(users, row), searches,
                     sessionsSet(token, userId), nextToken + 1)

loginNamesCause(body) ==
    LET email == ToLowerCase(Trim(body.email))
        password == body.password
    IN  IF email = <<>> \/ password = <<>>
        THEN Reply(400, Err("email and password required"))
        ELSE LET found == userByEmail(email)
             IN  IF found = NULL
                 THEN Reply(401, Err("unknown email"))
                 ELSE LET row == users[found[1]]
                      IN  IF verifyPasswordThrows(password, row.password_hash)
                          THEN Reply(500, Err("message of the exception"))
                          ELSE IF ~verifyPassword(password, row.password_hash)
                          THEN Reply(401, Err("invalid credentials"))
                          ELSE Out(200,
                                   [ token |-> makeToken,
                                     user |-> [ id |-> row.id, email |-> row.email,
                                                name |-> row.name, theme |-> row.theme ] ],
                                   users, searches,
                                   sessionsSet(makeToken, row.id), nextToken + 1)

\* POST /auth/login, after readJsonBody
login(body) ==
    LET email == ToLowerCase(Trim(body.email))
        password == body.password
    IN  IF email = <<>> \/ password = <<>>
        THEN Reply(400, Err("email and password required"))
        ELSE LET found == userByEmail(email)
             IN  IF found = NULL
                 THEN Reply(401, Err("invalid credentials"))
                 ELSE LET row == users[found[1]]
                      IN  IF verifyPasswordThrows(password, row.password_hash)
                          THEN Reply(500, Err("message of the exception"))
                          ELSE IF ~verifyPassword(password, row.password_hash)
                          THEN Reply(401, Err("invalid credentials"))
                          ELSE LET token == makeToken
                               IN  Out(200,
                                       [ token |-> token,
                                         user |-> [ id |-> row.id, email |-> row.email,
                                                    name |-> row.name, theme |-> row.theme ] ],
                                       users, searches,
                                       sessionsSet(token, row.id), nextToken + 1)

logoutEverySession(auth) ==
    LET token == getAuthToken(auth)
    IN  Out(200, [ success |-> TRUE ], users, searches,
            IF token \in DOMAIN sessions
            THEN [ t \in { x \in DOMAIN sessions : sessions[x] # sessions[token] } |-> sessions[t] ]
            ELSE sessions,
            nextToken)

logoutRequiresSession(auth) ==
    LET token == getAuthToken(auth)
    IN  IF token \notin DOMAIN sessions THEN Unauthorized
        ELSE Out(200, [ success |-> TRUE ], users, searches, sessionsDelete(token), nextToken)

\* POST /auth/logout
logout(auth) ==
    LET token == getAuthToken(auth)
    IN  Out(200, [ success |-> TRUE ], users, searches,
            IF token # NoToken THEN sessionsDelete(token) ELSE sessions, nextToken)

requestResetKeepsPending(body, resetToken) ==
    LET email == ToLowerCase(Trim(body.email))
    IN  IF email = <<>>
        THEN Reply(400, Err("email is required"))
        ELSE LET user == userByEmail(email)
             IN  IF user = NULL
                 THEN Reply(200, [ success |-> TRUE ])
                 ELSE LET expires == now + RESET_TTL
                      IN  Out(200,
                              [ success |-> TRUE, resetToken |-> resetToken,
                                expires |-> expires ],
                              IF users[user[1]].reset_token # NULL THEN users
                              ELSE [ users EXCEPT ![user[1]].reset_token = << resetToken >>,
                                                  ![user[1]].reset_expires = << expires >> ],
                              searches, sessions, nextToken)

requestResetTokenOnly(body, resetToken) ==
    LET email == ToLowerCase(Trim(body.email))
    IN  IF email = <<>>
        THEN Reply(400, Err("email is required"))
        ELSE LET user == userByEmail(email)
             IN  IF user = NULL
                 THEN Reply(200, [ success |-> TRUE ])
                 ELSE Out(200,
                          [ success |-> TRUE, resetToken |-> resetToken,
                            expires |-> now + RESET_TTL ],
                          [ users EXCEPT ![user[1]].reset_token = << resetToken >> ],
                          searches, sessions, nextToken)

requestResetDropsSessions(body, resetToken) ==
    LET email == ToLowerCase(Trim(body.email))
    IN  IF email = <<>>
        THEN Reply(400, Err("email is required"))
        ELSE LET user == userByEmail(email)
             IN  IF user = NULL
                 THEN Reply(200, [ success |-> TRUE ])
                 ELSE LET expires == now + RESET_TTL
                      IN  Out(200,
                              [ success |-> TRUE, resetToken |-> resetToken,
                                expires |-> expires ],
                              [ users EXCEPT ![user[1]].reset_token = << resetToken >>,
                                             ![user[1]].reset_expires = << expires >> ],
                              searches,
                              [ t \in { s \in DOMAIN sessions : sessions[s] # user[1] } |->
                                  sessions[t] ],
                              nextToken)

\* POST /auth/request-reset, after readJsonBody; resetToken is the value of makeToken(16)
requestReset(body, resetToken) ==
    LET email == ToLowerCase(Trim(body.email))
    IN  IF email = <<>>
        THEN Reply(400, Err("email is required"))
        ELSE LET user == userByEmail(email)
             IN  IF user = NULL
                 THEN Reply(200, [ success |-> TRUE ])
                 ELSE LET expires == now + RESET_TTL
                      IN  Out(200,
                              [ success |-> TRUE, resetToken |-> resetToken,
                                expires |-> expires ],
                              [ users EXCEPT ![user[1]].reset_token = << resetToken >>,
                                             ![user[1]].reset_expires = << expires >> ],
                              searches, sessions, nextToken)

resetKeepsToken(body, salt) ==
    LET email == ToLowerCase(Trim(body.email))
        resetToken == Trim(body.resetToken)
        newPassword == body.newPassword
    IN  IF email = <<>> \/ resetToken = <<>> \/ newPassword = <<>>
        THEN Reply(400, Err("email, resetToken, newPassword required"))
        ELSE IF Len(newPassword) < MIN_PASSWORD
        THEN Reply(400, Err("newPassword must be at least 6 characters"))
        ELSE LET found == userByEmail(email)
             IN  IF found = NULL
                 THEN Reply(400, Err("reset not requested"))
                 ELSE LET row == users[found[1]]
                      IN  IF row.reset_token = NULL \/ row.reset_token[1] = <<>>
                             \/ row.reset_expires = NULL \/ row.reset_expires[1] = 0
                          THEN Reply(400, Err("reset not requested"))
                          ELSE IF row.reset_token[1] # resetToken
                          THEN Reply(400, Err("invalid token"))
                          ELSE IF now > row.reset_expires[1]
                          THEN Reply(400, Err("token expired"))
                          ELSE Out(200, [ success |-> TRUE ],
                                   [ users EXCEPT
                                       ![row.id].password_hash = hashPassword(newPassword, salt) ],
                                   searches, sessions, nextToken)

resetExpiresAtBoundary(body, salt) ==
    LET email == ToLowerCase(Trim(body.email))
        resetToken == Trim(body.resetToken)
        newPassword == body.newPassword
    IN  IF email = <<>> \/ resetToken = <<>> \/ newPassword = <<>>
        THEN Reply(400, Err("email, resetToken, newPassword required"))
        ELSE IF Len(newPassword) < MIN_PASSWORD
        THEN Reply(400, Err("newPassword must be at least 6 characters"))
        ELSE LET found == userByEmail(email)
             IN  IF found = NULL
                 THEN Reply(400, Err("reset not requested"))
                 ELSE LET row == users[found[1]]
                      IN  IF row.reset_token = NULL \/ row.reset_token[1] = <<>>
                             \/ row.reset_expires = NULL \/ row.reset_expires[1] = 0
                          THEN Reply(400, Err("reset not requested"))
                          ELSE IF row.reset_token[1] # resetToken
                          THEN Reply(400, Err("invalid token"))
                          ELSE IF now >= row.reset_expires[1]
                          THEN Reply(400, Err("token expired"))
                          ELSE Out(200, [ success |-> TRUE ],
                                   [ users EXCEPT
                                       ![row.id].password_hash = hashPassword(newPassword, salt),
                                       ![row.id].reset_token = NULL,
                                       ![row.id].reset_expires = NULL ],
                                   searches, sessions, nextToken)

resetBurnsTokenOnMismatch(body, salt) ==
    LET email == ToLowerCase(Trim(body.email))
        resetToken == Trim(body.resetToken)
        newPassword == body.newPassword
    IN  IF email = <<>> \/ resetToken = <<>> \/ newPassword = <<>>
        THEN Reply(400, Err("email, resetToken, newPassword required"))
        ELSE IF Len(newPassword) < MIN_PASSWORD
        THEN Reply(400, Err("newPassword must be at least 6 characters"))
        ELSE LET found == userByEmail(email)
             IN  IF found = NULL
                 THEN Reply(400, Err("reset not requested"))
                 ELSE LET row == users[found[1]]
                      IN  IF row.reset_token = NULL \/ row.reset_token[1] = <<>>
                             \/ row.reset_expires = NULL \/ row.reset_expires[1] = 0
                          THEN Reply(400, Err("reset not requested"))
                          ELSE IF row.reset_token[1] # resetToken
                          THEN Out(400, Err("invalid token"),
                                   [ users EXCEPT ![row.id].reset_token = NULL,
                                                  ![row.id].reset_expires = NULL ],
                                   searches, sessions, nextToken)
                          ELSE IF now > row.reset_expires[1]
                          THEN Reply(400, Err("token expired"))
                          ELSE Out(200, [ success |-> TRUE ],
                                   [ users EXCEPT
                                       ![row.id].password_hash = hashPassword(newPassword, salt),
                                       ![row.id].reset_token = NULL,
                                       ![row.id].reset_expires = NULL ],
                                   searches, sessions, nextToken)

resetEndsSessions(body, salt) ==
    LET email == ToLowerCase(Trim(body.email))
        resetToken == Trim(body.resetToken)
        newPassword == body.newPassword
    IN  IF email = <<>> \/ resetToken = <<>> \/ newPassword = <<>>
        THEN Reply(400, Err("email, resetToken, newPassword required"))
        ELSE IF Len(newPassword) < MIN_PASSWORD
        THEN Reply(400, Err("newPassword must be at least 6 characters"))
        ELSE LET found == userByEmail(email)
             IN  IF found = NULL
                 THEN Reply(400, Err("reset not requested"))
                 ELSE LET row == users[found[1]]
                      IN  IF row.reset_token = NULL \/ row.reset_token[1] = <<>>
                             \/ row.reset_expires = NULL \/ row.reset_expires[1] = 0
                          THEN Reply(400, Err("reset not requested"))
                          ELSE IF row.reset_token[1] # resetToken
                          THEN Reply(400, Err("invalid token"))
                          ELSE IF now > row.reset_expires[1]
                          THEN Reply(400, Err("token expired"))
                          ELSE Out(200, [ success |-> TRUE ],
                                   [ users EXCEPT
                                       ![row.id].password_hash = hashPassword(newPassword, salt),
                                       ![row.id].reset_token = NULL,
                                       ![row.id].reset_expires = NULL ],
                                   searches,
                                   [ t \in { s \in DOMAIN sessions : sessions[s] # row.id } |->
                                       sessions[t] ],
                                   nextToken)

\* POST /auth/reset, after readJsonBody
reset(body, salt) ==
    LET email == ToLowerCase(Trim(body.email))
        resetToken == Trim(body.resetToken)
        newPassword == body.newPassword
    IN  IF email = <<>> \/ resetToken = <<>> \/ newPassword = <<>>
        THEN Reply(400, Err("email, resetToken, newPassword required"))
        ELSE IF Len(newPassword) < MIN_PASSWORD
        THEN Reply(400, Err("newPassword must be at least 6 characters"))
        ELSE LET found == userByEmail(email)
             IN  IF found = NULL
                 THEN Reply(400, Err("reset not requested"))
                 ELSE LET row == users[found[1]]
                      IN  IF row.reset_token = NULL \/ row.reset_token[1] = <<>>
                             \/ row.reset_expires = NULL \/ row.reset_expires[1] = 0
                          THEN Reply(400, Err("reset not requested"))
                          ELSE IF row.reset_token[1] # resetToken
                          THEN Reply(400, Err("invalid token"))
                          ELSE IF now > row.reset_expires[1]
                          THEN Reply(400, Err("token expired"))
                          ELSE Out(200, [ success |-> TRUE ],
                                   [ users EXCEPT
                                       ![row.id].password_hash = hashPassword(newPassword, salt),
                                       ![row.id].reset_token = NULL,
                                       ![row.id].reset_expires = NULL ],
                                   searches, sessions, nextToken)

\* SELECT id, email, name, theme FROM users WHERE id=?
publicUser(userId) ==
    IF userId \in DOMAIN users
    THEN << [ id |-> users[userId].id, email |-> users[userId].email,
              name |-> users[userId].name, theme |-> users[userId].theme ] >>
    ELSE NULL

\* GET /me
me(auth) ==
    LET userId == requireAuth(auth)
    IN  IF userId = 0 THEN Unauthorized
        ELSE Reply(200, [ user |-> publicUser(userId) ])

meThemeEveryUser(userId, body) ==
    LET theme == IF body.theme = "" THEN "system" ELSE body.theme
    IN  IF theme \notin { "system", "light", "dark" }
        THEN Reply(400, Err("theme must be system|light|dark"))
        ELSE Out(200, [ success |-> TRUE, theme |-> theme ],
                 [ i \in DOMAIN users |-> [ users[i] EXCEPT !.theme = theme ] ],
                 searches, sessions, nextToken)

\* PUT /me/theme, after readJsonBody; userId is the one requireAuth returned on arrival
meTheme(userId, body) ==
    LET theme == IF body.theme = "" THEN "system" ELSE body.theme
    IN  IF theme \notin { "system", "light", "dark" }
        THEN Reply(400, Err("theme must be system|light|dark"))
        ELSE Out(200, [ success |-> TRUE, theme |-> theme ],
                 [ i \in DOMAIN users |->
                     IF users[i].id = userId THEN [ users[i] EXCEPT !.theme = theme ]
                     ELSE users[i] ],
                 searches, sessions, nextToken)

\* SELECT city, lang, created_at FROM searches WHERE user_id=? ORDER BY created_at DESC LIMIT 50
HISTORY_LIMIT == 50

\* the rows of userId in an order ORDER BY created_at DESC allows (rows with equal
\* created_at come in either order), cut to the first HISTORY_LIMIT
RowsOf(userId) == { i \in DOMAIN searches : searches[i].user_id = userId }

HistoryOrders(userId) ==
    LET n == Cardinality(RowsOf(userId))
        m == IF n < HISTORY_LIMIT THEN n ELSE HISTORY_LIMIT
        perms == { p \in [1 .. n -> RowsOf(userId)] :
                     /\ \A i, j \in 1 .. n : i # j => p[i] # p[j]
                     /\ \A i, j \in 1 .. n :
                          i < j => searches[p[i]].created_at >= searches[p[j]].created_at }
    IN  { [ k \in 1 .. m |-> [ city |-> searches[p[k]].city, lang |-> searches[p[k]].lang,
                               created_at |-> searches[p[k]].created_at ] ] : p \in perms }

\* GET /history; rows is the order the store returned
historyGet(auth, rows) ==
    LET userId == requireAuth(auth)
    IN  IF userId = 0 THEN Unauthorized
        ELSE Reply(200, [ history |-> rows ])

historyPostAnyLang(userId, body) ==
    LET city == Trim(body.city)
        lang == Trim(IF body.lang = <<>> THEN <<"e", "n">> ELSE body.lang)
    IN  IF city = <<>> THEN Reply(400, Err("city is required"))
        ELSE Out(200, [ success |-> TRUE ], users,
                 Append(searches, [ user_id |-> userId, city |-> city, lang |-> lang,
                                    created_at |-> now ]),
                 sessions, nextToken)

historyPostKeepsLatest(userId, body) ==
    LET city == Trim(body.city)
        lang == Trim(IF body.lang = <<>> THEN <<"e", "n">> ELSE body.lang)
    IN  IF city = <<>> THEN Reply(400, Err("city is required"))
        ELSE IF lang \notin { <<"e", "n">>, <<"r", "u">> }
        THEN Reply(400, Err("lang must be en|ru"))
        ELSE Out(200, [ success |-> TRUE ], users,
                 Append(SelectSeq(searches, LAMBDA r : r.user_id # userId \/ r.city # city),
                        [ user_id |-> userId, city |-> city, lang |-> lang,
                          created_at |-> now ]),
                 sessions, nextToken)

\* POST /history, after readJsonBody; userId is the one requireAuth returned on arrival
historyPost(userId, body) ==
    LET city == Trim(body.city)
        lang == Trim(IF body.lang = <<>> THEN <<"e", "n">> ELSE body.lang)
    IN  IF city = <<>> THEN Reply(400, Err("city is required"))
        ELSE IF lang \notin { <<"e", "n">>, <<"r", "u">> }
        THEN Reply(400, Err("lang must be en|ru"))
        ELSE Out(200, [ success |-> TRUE ], users,
                 Append(searches, [ user_id |-> userId, city |-> city, lang |-> lang,
                                    created_at |-> now ]),
                 sessions, nextToken)

\* ------------------------------------------------------------- request bodies
\* whose mailbox an email input names, said without the code's own normalisation
Mailbox(raw) == IF raw = << " ", "A" >> THEN << "a" >> ELSE raw
Emails == { Mailbox(e) : e \in EmailInputs } \ { <<>> }
Bearer(t) == << "Bearer", t >>
\* the headers requests carry in the runs, and every header shape the claims speak of
AuthHeaders == { <<>>, Bearer(ForgedToken) } \cup { Bearer(t) : t \in IssuedTokens }
AllHeaders == AuthHeaders \cup { Bearer(NoToken) } \cup { << "Basic", t >> : t \in IssuedTokens }
RegisterBodies == [ email : EmailInputs, name : NameInputs, password : PasswordInputs ]
LoginBodies == [ email : EmailInputs, password : PasswordInputs ]
RequestResetBodies == [ email : EmailInputs ]
ResetBodies == [ email : EmailInputs, resetToken : ResetTokenInputs, newPassword : PasswordInputs ]
ThemeBodies == [ theme : ThemeInputs ]
HistoryBodies == [ city : CityInputs, lang : LangInputs ]

\* arrival of PUT /me/theme or POST /history: requireAuth, then the handler
\* suspends in readJsonBody holding userId
arrive(route, auth) ==
    LET userId == requireAuth(auth)
    IN  IF userId = 0
        THEN [ resp |-> << Unauthorized >>, pending |-> pending ]
        ELSE [ resp |-> NULL,
               pending |-> pending (+) SetToBag({ [ route |-> route, userId |-> userId ] }) ]

\* ------------------------------------------------------------- actions
NoReset == [ cur |-> NULL, prev |-> NULL, used |-> NULL ]

\* no pure function applied yet
NoCall == [ fn |-> "none" ]

\* the connections a client can hold open, each carrying one request at a time
MaxConns == 2
Conns == 1 .. MaxConns
Idle == [ at |-> "idle" ]

\* ------------------------------------------------------------- the weather page
\* (src/fronted/app/weather/page.tsx) of one signed-in browser tab
FAV_LIMIT == 10
FAV_SHOWN == 6
MaxGestures == 2

Riga == << "R", "i", "g", "a" >>
Oslo == << "O", "s", "l", "o" >>

\* the IIFE of the mount effect that loads the history, and the search the token
\* effect starts on mount
LoadHistoryCall == 0
AutoFetchCall == 1
\* the id of the next fetchWeather call
NextCall == gestures + 2

\* the call's closure: the function, the query q, the await it is suspended in and the
\* weather answer w once received
Call(fn, q, at, w) == [ fn |-> fn, q |-> q, at |-> at, w |-> w ]

\* the page once both effects of the mount have run: the favourites read from the key
\* of the first render (user is still null there), the history being loaded and the
\* search for the initial city suspended in its first await
Mount(stored) ==
    /\ page = [ city |-> Riga, now |-> NULL, forecast |-> <<>>, history |-> <<>>,
                loading |-> TRUE, err |-> "", favs |-> stored,
                from |-> [ now |-> 0, forecast |-> 0, city |-> 0 ] ]
    /\ calls = [ k \in { LoadHistoryCall, AutoFetchCall } |->
                   IF k = LoadHistoryCall THEN Call("loadHistory", <<>>, "history", NULL)
                   ELSE Call("fetchWeather", Riga, "weather", NULL) ]
    /\ localStorage = [ te_favs_guest |-> stored, te_favs_user |-> <<>> ]
    /\ gestures = 0

\* const favourites = favs.slice(0, 6)
favourites == SubSeq(page.favs, 1, IF Len(page.favs) < FAV_SHOWN THEN Len(page.favs) ELSE FAV_SHOWN)

ArrayFromNewSetKeepsAll(list) == list

\* Array.from(new Set(list)): the first occurrence of every value, in order
ArrayFromNewSet(list) ==
    LET first == { i \in DOMAIN list : \A j \in DOMAIN list : list[j] = list[i] => i <= j }
        F[n \in 0 .. Len(list)] ==
            IF n = 0 THEN <<>>
            ELSE IF n \in first THEN Append(F[n - 1], list[n]) ELSE F[n - 1]
    IN  F[Len(list)]

\* addFavourite: the next list, written to favs and to localStorage under favKey
addFavourite ==
    LET c == Trim(page.city)
    IN  IF c = <<>> THEN page.favs
        ELSE LET all == ArrayFromNewSet(<< c >> \o page.favs)
             IN  SubSeq(all, 1, IF Len(all) < FAV_LIMIT THEN Len(all) ELSE FAV_LIMIT)

AddFavourite ==
    /\ gestures < MaxGestures
    /\ gestures' = gestures + 1
    /\ page' = [ page EXCEPT !.favs = addFavourite ]
    /\ localStorage' = IF Trim(page.city) = <<>> THEN localStorage
                       ELSE [ localStorage EXCEPT !.te_favs_user = addFavourite ]
    /\ UNCHANGED << calls, back >>

\* onChange of the city input: setCity(e.target.value)
Type(text) ==
    /\ page' = [ page EXCEPT !.city = text, !.from.city = 0 ]
    /\ UNCHANGED << calls, localStorage, gestures, back >>

\* ---- fetchWeather(c), one operator for each stretch between two awaits
Searching == { k \in DOMAIN calls : calls[k].fn = "fetchWeather" }

\* setErr(""), setLoading(true), up to the first await
fetchWeatherStart == [ page EXCEPT !.err = "", !.loading = TRUE ]

onForecastKeepsCity(k, forecast) ==
    [ page EXCEPT !.now = << calls[k].w >>, !.forecast = forecast,
                  !.from.now = k, !.from.forecast = k ]

\* both answers are in: setNow(w), setForecast(f.forecast || []), setCity(q)
onForecast(k, forecast) ==
    [ page EXCEPT !.now = << calls[k].w >>, !.forecast = forecast, !.city = calls[k].q,
                  !.from = [ now |-> k, forecast |-> k, city |-> k ] ]

\* catch (e) of the outer try, then finally
onFailure(message) ==
    [ page EXCEPT !.err = IF message = "" THEN "Error" ELSE message, !.loading = FALSE ]

\* finally: setLoading(false)
onFinally == [ page EXCEPT !.loading = FALSE ]

\* a click on Get Weather (disabled while loading), Enter in the city input, a click
\* on a favourite button or on a history button
Sources == { "button", "enter", "favourite", "history" }
Clickable(source) ==
    CASE source = "button" -> IF page.loading THEN {} ELSE { page.city }
      [] source = "enter" -> { page.city }
      [] source = "favourite" -> { favourites[i] : i \in DOMAIN favourites }
      [] source = "history" -> { page.history[i].city : i \in DOMAIN page.history }

Start(source, c) ==
    /\ gestures < MaxGestures
    /\ c \in Clickable(source)
    /\ gestures' = gestures + 1
    /\ IF Trim(c) = <<>>
       THEN UNCHANGED << page, calls >>
       ELSE /\ page' = fetchWeatherStart
            /\ calls' = [ k \in DOMAIN calls \cup { NextCall } |->
                            IF k = NextCall THEN Call("fetchWeather", Trim(c), "weather", NULL)
                            ELSE calls[k] ]
    /\ UNCHANGED << localStorage, back >>

Settled(k) == [ j \in DOMAIN calls \ { k } |-> calls[j] ]

\* api() of /api/weather settles: ok with the answer for q, or it throws
WeatherAnswer(k, ok, message) ==
    /\ k \in Searching /\ calls[k].at = "weather"
    /\ IF ok
       THEN /\ calls' = [ calls EXCEPT ![k].at = "forecast",
                                       ![k].w = [ city |-> calls[k].q, search |-> k ] ]
            /\ UNCHANGED page
       ELSE /\ calls' = Settled(k)
            /\ page' = onFailure(message)
    /\ UNCHANGED << localStorage, gestures, back >>

\* api() of /api/forecast settles
ForecastAnswer(k, ok, forecast, message) ==
    /\ k \in Searching /\ calls[k].at = "forecast"
    /\ IF ok
       THEN /\ calls' = [ calls EXCEPT ![k].at = "save" ]
            /\ page' = onForecast(k, forecast)
       ELSE /\ calls' = Settled(k)
            /\ page' = onFailure(message)
    /\ UNCHANGED << localStorage, gestures, back >>

\* api() of POST /history settles; a throw is swallowed by the inner catch
SaveAnswer(k, ok) ==
    /\ k \in Searching /\ calls[k].at = "save"
    /\ IF ok
       THEN /\ calls' = [ calls EXCEPT ![k].at = "refresh" ]
            /\ UNCHANGED page
       ELSE /\ calls' = Settled(k)
            /\ page' = onFinally
    /\ UNCHANGED << localStorage, gestures, back >>

\* api() of GET /history settles: setHistory(h.history || [])
RefreshAnswer(k, ok, history) ==
    /\ k \in Searching /\ calls[k].at = "refresh"
    /\ calls' = Settled(k)
    /\ page' = IF ok THEN [ onFinally EXCEPT !.history = history ] ELSE onFinally
    /\ UNCHANGED << localStorage, gestures, back >>

\* the history load of the mount effect settles: setHistory(data.history || []), or
\* setHistory([]) in its catch
HistoryLoaded(ok, history) ==
    /\ LoadHistoryCall \in DOMAIN calls
    /\ calls' = Settled(LoadHistoryCall)
    /\ page' = [ page EXCEPT !.history = IF ok THEN history ELSE <<>> ]
    /\ UNCHANGED << localStorage, gestures, back >>

\* ---- SpecPage: searches from every source, overlapping, each of their four calls
\* answered or failing, beside typing and adding a favourite
PageTexts == { <<>>, Riga, << " " >> \o Oslo }
ForecastAnswers == { << [ date |-> << "2", "0", "2", "4", "-", "0", "1", "-", "0", "1" >>,
                          min |-> 12, max |-> 25, description |-> "rain", icon |-> "10d" ] >> }
HistoryAnswers == { << [ city |-> Oslo, lang |-> << "e", "n" >>, created_at |-> 0 ] >> }
ErrorMessages == { "city not found" }

NextPage ==
    \/ \E text \in PageTexts : Type(text)
    \/ AddFavourite
    \/ \E source \in Sources : \E c \in Clickable(source) : Start(source, c)
    \/ \E k \in Searching, message \in ErrorMessages :
         \E ok \in BOOLEAN : WeatherAnswer(k, ok, message)
    \/ \E k \in Searching, forecast \in ForecastAnswers, message \in ErrorMessages :
         \E ok \in BOOLEAN : ForecastAnswer(k, ok, forecast, message)
    \/ \E k \in Searching, ok \in BOOLEAN : SaveAnswer(k, ok)
    \/ \E k \in Searching, history \in HistoryAnswers :
         \E ok \in BOOLEAN : RefreshAnswer(k, ok, history)
    \/ \E history \in HistoryAnswers : \E ok \in BOOLEAN : HistoryLoaded(ok, history)

Init ==
    /\ users = <<>>
    /\ searches = <<>>
    /\ sessions = [ t \in {} |-> 0 ]
    /\ now = 0
    /\ nextToken = 1
    /\ pending = EmptyBag
    /\ issuedTo = [ t \in {} |-> 0 ]
    /\ revoked = {}
    /\ regs = [ e \in Emails |-> 0 ]
    /\ setPw = [ e \in Emails |-> NULL ]
    /\ rst = [ e \in Emails |-> NoReset ]
    /\ ret = NoCall
    /\ conn = [ c \in Conns |-> Idle ]
    /\ OW_KEY = TRUE
    /\ Mount(<<>>)

\* the handler's outcome becomes the shared state
Respond(o) ==
    /\ o.nextToken <= MaxTokens + 1
    /\ Len(o.users) + Len(o.searches) <= MaxRows
    /\ users' = o.users
    /\ searches' = o.searches
    /\ sessions' = o.sessions
    /\ nextToken' = o.nextToken

\* a response carrying a session token tells the client whose session it is
Issued(o) ==
    IF o.status \in { 200, 201 }
    THEN [ t \in DOMAIN issuedTo \cup { o.body.token } |->
             IF t = o.body.token THEN o.body.user.id ELSE issuedTo[t] ]
    ELSE issuedTo

Register(body, salt) ==
    LET o == register(body, salt)
        email == Mailbox(body.email)
    IN  /\ Respond(o)
        /\ issuedTo' = Issued(o)
        /\ regs' = IF o.status = 201 THEN [ regs EXCEPT ![email] = @ + 1 ] ELSE regs
        /\ setPw' = IF o.status = 201 THEN [ setPw EXCEPT ![email] = << body.password >> ]
                    ELSE setPw
        /\ UNCHANGED << now, pending, revoked, rst, ret, conn, OW_KEY, front >>

Login(body) ==
    LET o == login(body)
    IN  /\ Respond(o)
        /\ issuedTo' = Issued(o)
        /\ UNCHANGED << now, pending, revoked, regs, setPw, rst, ret, conn, OW_KEY, front >>

Logout(auth) ==
    /\ Respond(logout(auth))
    /\ revoked' = revoked \cup ({ getAuthToken(auth) } \cap DOMAIN issuedTo)
    /\ UNCHANGED << now, pending, issuedTo, regs, setPw, rst, ret, conn, OW_KEY, front >>

RequestReset(body, resetToken) ==
    LET o == requestReset(body, resetToken)
        email == Mailbox(body.email)
    IN  /\ Respond(o)
        /\ rst' = IF o.status = 200 /\ "resetToken" \in DOMAIN o.body
                  THEN [ rst EXCEPT ![email] =
                           [ cur |-> << o.body.resetToken >>,
                             prev |-> IF @.cur # << o.body.resetToken >> THEN @.cur ELSE NULL,
                             used |-> NULL ] ]
                  ELSE rst
        /\ UNCHANGED << now, pending, issuedTo, revoked, regs, setPw, ret, conn, OW_KEY, front >>

Reset(body, salt) ==
    LET o == reset(body, salt)
        email == Mailbox(body.email)
    IN  /\ Respond(o)
        /\ rst' = IF o.status = 200
                  THEN [ rst EXCEPT ![email].used = << Trim(body.resetToken) >> ]
                  ELSE rst
        /\ setPw' = IF o.status = 200 THEN [ setPw EXCEPT ![email] = << body.newPassword >> ]
                    ELSE setPw
        /\ UNCHANGED << now, pending, issuedTo, revoked, regs, ret, conn, OW_KEY, front >>

Me(auth) ==
    /\ Respond(me(auth))
    /\ UNCHANGED << now, pending, hist, ret, conn, OW_KEY, front >>

HistoryGet(auth) ==
    /\ \E rows \in HistoryOrders(requireAuth(auth)) : Respond(historyGet(auth, rows))
    /\ UNCHANGED << now, pending, hist, ret, conn, OW_KEY, front >>

Arrive(route, auth) ==
    LET a == arrive(route, auth)
    IN  /\ Len(users) + Len(searches) + BagCardinality(a.pending) <= MaxRows
        /\ pending' = a.pending
        /\ IF a.resp # NULL THEN Respond(a.resp[1])
           ELSE UNCHANGED << users, searches, sessions, nextToken >>
        /\ UNCHANGED << now, hist, ret, conn, OW_KEY, front >>

\* the body of a suspended PUT /me/theme has been read
ThemeBody(c, body) ==
    /\ c.route = "theme"
    /\ Respond(meTheme(c.userId, body))
    /\ pending' = pending (-) SetToBag({ c })
    /\ UNCHANGED << now, hist, ret, conn, OW_KEY, front >>

\* the body of a suspended POST /history has been read
HistoryPostBody(c, body) ==
    /\ c.route = "history-post"
    /\ Respond(historyPost(c.userId, body))
    /\ pending' = pending (-) SetToBag({ c })
    /\ UNCHANGED << now, hist, ret, conn, OW_KEY, front >>

\* Date.now() advances, by a millisecond or by the reset lifetime
ClockSteps == { 1, RESET_TTL }

Tick(d) ==
    /\ (now \div RESET_TTL) + (now % RESET_TTL) < MaxTicks
    /\ now' = now + d
    /\ UNCHANGED << users, searches, sessions, nextToken, pending, hist, ret, conn, OW_KEY, front >>

\* ------------------------------------------------------------- specifications
\* Spec: every route, with one valid body per route and the bodies the session and
\* registration claims turn on; the clock stands still.
SessRegisterBodies == [ email : { <<"a">>, <<" ", "A">>, <<"b">> }, name : { <<"n">> },
                        password : { Pw1 } ]
SessLoginBodies == [ email : { <<"a">> }, password : { Pw1, Pw2 } ]
SessResetBodies == [ email : { <<"a">> }, resetToken : { <<"e", "1">> }, newPassword : { Pw2 } ]
SessThemeBodies == [ theme : { "dark", "neon" } ]
SessHistoryBodies == [ city : CityInputs, lang : { <<"r", "u">> } ]

Next ==
    \/ \E body \in SessRegisterBodies : Register(body, "5a")
    \/ \E body \in SessLoginBodies : Login(body)
    \/ \E auth \in AuthHeaders : Logout(auth)
    \/ RequestReset([ email |-> <<"a">> ], <<"e", "1">>)
    \/ \E body \in SessResetBodies : Reset(body, "c3")
    \/ \E auth \in AuthHeaders : Me(auth)
    \/ \E auth \in AuthHeaders : HistoryGet(auth)
    \/ \E auth \in AuthHeaders : Arrive("theme", auth)
    \/ \E auth \in AuthHeaders : Arrive("history-post", auth)
    \/ \E c \in BagToSet(pending), body \in SessThemeBodies : ThemeBody(c, body)
    \/ \E c \in BagToSet(pending), body \in SessHistoryBodies : HistoryPostBody(c, body)

Spec == Init /\ [][Next]_vars

\* SpecReset: the credential and reset-token flow under a running clock: every
\* sequence of register, request-reset and reset, with login of every body
ResetRegisterBodies == [ email : { <<"a">>, <<"b">> }, name : { <<"n">> }, password : { Pw1 } ]
ResetRequests == ([ email : { <<" ", "A">> } ] \X ResetTokens)
                     \cup { << [ email |-> <<"b">> ], <<"e", "1">> >> }
ResetResetBodies == [ email : { <<"a">> }, resetToken : ResetTokens, newPassword : { Pw1, Pw2 } ]
                        \cup [ email : { <<"b">> }, resetToken : { <<"e", "1">> },
                               newPassword : { Pw2 } ]

NextReset ==
    \/ \E body \in ResetRegisterBodies : Register(body, "5a")
    \/ \E body \in LoginBodies : Login(body)
    \/ \E r \in ResetRequests : RequestReset(r[1], r[2])
    \/ \E body \in ResetResetBodies : Reset(body, "c3")
    \/ \E d \in ClockSteps : Tick(d)

SpecReset == Init /\ [][NextReset]_vars

\* ------------------------------------------------------------- claims
Refused(auth) ==
    /\ me(auth) = Unauthorized
    /\ \A rows \in HistoryOrders(requireAuth(auth)) : historyGet(auth, rows) = Unauthorized
    /\ \A route \in { "theme", "history-post" } :
           arrive(route, auth) = [ resp |-> << Unauthorized >>, pending |-> pending ]

\* C1: a session token handed out by register or login for user u resolves to u, and
\* GET /me with it returns u's record, in every state in which it has not been
\* presented to logout, whatever else has happened since.
SessionResolvesToItsUser ==
    \A t \in DOMAIN issuedTo \ revoked :
        LET u == issuedTo[t]
        IN  /\ t \in DOMAIN sessions
            /\ sessions[t] = u
            /\ u \in DOMAIN users
            /\ requireAuth(Bearer(t)) = u
            /\ me(Bearer(t)).status = 200
            /\ me(Bearer(t)).body.user =
                   << [ id |-> u, email |-> users[u].email, name |-> users[u].name,
                        theme |-> users[u].theme ] >>
            /\ \A route \in { "theme", "history-post" } :
                   arrive(route, Bearer(t)) =
                       [ resp |-> NULL,
                         pending |-> pending (+) SetToBag({ [ route |-> route, userId |-> u ] }) ]

\* a live session of a user whose password was reset and who wrote a theme and a
\* search, while another session was logged out
SessionSurvivesWitness ==
    \E t \in DOMAIN issuedTo \ revoked :
        /\ sessions[t] = issuedTo[t]
        /\ revoked # {}
        /\ rst[users[issuedTo[t]].email].used # NULL
        /\ users[issuedTo[t]].theme = "dark"
        /\ \E i \in DOMAIN searches : searches[i].user_id = issuedTo[t]

\* C2: a token presented to logout is out of the registry in every later state, every
\* auth-gated request presenting it is answered 401, and another logout with it is
\* answered 200 and leaves the registry as it is.
RevokedStaysRevoked ==
    \A t \in revoked :
        /\ t \notin DOMAIN sessions
        /\ Refused(Bearer(t))
        /\ logout(Bearer(t)).status = 200
        /\ logout(Bearer(t)).sessions = sessions

\* the user of a revoked token holds a newer live session, and the old token is refused
RevokedWitness ==
    \E t \in revoked, t2 \in DOMAIN sessions :
        /\ t2[1] > t[1]
        /\ sessions[t2] = issuedTo[t]
        /\ me(Bearer(t)).status = 401

\* C3: a request to GET /me, PUT /me/theme, GET /history or POST /history whose bearer
\* token is absent or not in the registry is answered 401 with nothing but the error,
\* and users, searches and the registry stay as they are.
UnauthenticatedIsRefused ==
    \A auth \in AllHeaders :
        ( \/ auth = <<>>
          \/ auth[1] # "Bearer"
          \/ auth[2] = NoToken
          \/ auth[2] \notin DOMAIN sessions )
        => /\ Refused(auth)
           /\ me(auth).status = 401
           /\ me(auth).body = [ error |-> "Unauthorized" ]
           /\ me(auth).users = users
           /\ me(auth).searches = searches
           /\ me(auth).sessions = sessions

\* users, searches and live sessions exist; a revoked token and a live token under
\* another scheme are both refused
UnauthenticatedWitness ==
    /\ searches # <<>>
    /\ \E t \in revoked : me(Bearer(t)).status = 401
    /\ \E t \in DOMAIN sessions :
           /\ << "Basic", t >> \in AllHeaders
           /\ arrive("theme", << "Basic", t >>).resp = << Unauthorized >>

\* an email as the store keeps it: no upper-case letter, no blank at either end
Normalised(e) ==
    /\ e # <<>>
    /\ \A k \in DOMAIN e : e[k] \notin { "A", "B" }
    /\ e[1] # " "
    /\ e[Len(e)] # " "

\* C6: no two user records share an email, emails are stored trimmed and lower-case,
\* and of the register requests naming one mailbox exactly one is answered 201: any
\* other is answered 409 and creates neither a user nor a session.
EmailsUnique ==
    /\ \A i, j \in DOMAIN users : i # j => users[i].email # users[j].email
    /\ \A i \in DOMAIN users : Normalised(users[i].email) /\ users[i].id = i
    /\ \A e \in Emails : regs[e] <= 1 /\ regs[e] = Cardinality({ i \in DOMAIN users : users[i].email = e })
    /\ \A body \in SessRegisterBodies :
           LET o == register(body, "5a")
           IN  IF regs[Mailbox(body.email)] > 0
               THEN o = Reply(409, Err("user already exists"))
               ELSE /\ o.status = 201
                    /\ Len(o.users) = Len(users) + 1
                    /\ o.users[Len(o.users)].email = Mailbox(body.email)

\* a mailbox is registered, and a second registration spelling it differently is
\* answered 409 while another mailbox can still register
DuplicateEmailWitness ==
    /\ regs[<< "a" >>] = 1
    /\ regs[<< "b" >>] = 0
    /\ register([ email |-> << " ", "A" >>, name |-> << "n" >>, password |-> Pw1 ], "5a").status = 409
    /\ register([ email |-> << "b" >>, name |-> << "n" >>, password |-> Pw1 ], "5a").status = 201

\* the row of a registered mailbox
RowOf(e) == CHOOSE i \in DOMAIN users : users[i].email = e

ValidPasswords == { p \in PasswordInputs : Len(p) >= MIN_PASSWORD }

\* C4: login with a registered email and a password p is answered 200, with a fresh
\* token resolving to that user, exactly when p is the password most recently set for
\* the user by registration or by a successful reset; otherwise it is answered 401.
PasswordDecidesLogin ==
    \A body \in LoginBodies :
        LET e == Mailbox(body.email)
            o == login(body)
        IN  (e \in Emails /\ regs[e] > 0 /\ body.password # <<>>)
            => IF setPw[e] = << body.password >>
               THEN /\ o.status = 200
                    /\ o.body.token \notin DOMAIN sessions \cup DOMAIN issuedTo
                    /\ o.sessions[o.body.token] = RowOf(e)
                    /\ o.body.user.id = RowOf(e)
                    /\ o.body.user.email = e
                    /\ o.users = users
               ELSE /\ o.status = 401
                    /\ o.sessions = sessions

\* after a successful reset the new password logs in and the one of the registration
\* is answered 401
LoginAfterResetWitness ==
    \E e \in Emails :
        /\ rst[e].used # NULL
        /\ setPw[e] = << Pw2 >>
        /\ login([ email |-> e, password |-> Pw2 ]).status = 200
        /\ login([ email |-> e, password |-> Pw1 ]).status = 401

\* C5: a login with non-empty email and password that fails, because the email is
\* unregistered or because the password is not the user's, gets one and the same
\* response, 401 "invalid credentials", and creates no session and changes no state.
LoginFailureUniform ==
    \A body \in LoginBodies :
        LET e == Mailbox(body.email)
        IN  (e \in Emails /\ body.password # <<>> /\ (regs[e] = 0 \/ setPw[e] # << body.password >>))
            => login(body) = Reply(401, Err("invalid credentials"))

\* one password, refused alike for an unregistered email and for a registered email
\* with another password
LoginFailureWitness ==
    \E p \in ValidPasswords, e1, e2 \in Emails :
        /\ regs[e1] = 0
        /\ regs[e2] = 1
        /\ setPw[e2] # << p >>
        /\ login([ email |-> e1, password |-> p ]).status = 401
        /\ login([ email |-> e1, password |-> p ]) = login([ email |-> e2, password |-> p ])

\* C7: once a reset has succeeded for a user with token k, a reset for that user
\* carrying k again is answered 400 and changes no user record, until a request-reset
\* issues a token for that user.
ResetTokenSingleUse ==
    \A e \in Emails :
        rst[e].used # NULL
        => \A raw \in { x \in EmailInputs : Mailbox(x) = e }, p \in ValidPasswords, salt \in Salts :
               LET o == reset([ email |-> raw, resetToken |-> rst[e].used[1],
                                newPassword |-> p ], salt)
               IN  o.status = 400 /\ o.users = users

\* a token was spent while its lifetime had not run out, and its replay is refused
ResetReplayWitness ==
    \E e \in Emails :
        /\ rst[e].used # NULL
        /\ now < RESET_TTL
        /\ reset([ email |-> e, resetToken |-> rst[e].used[1], newPassword |-> Pw1 ],
                 "5a").status = 400

\* C8: a reset carrying the stored token changes the credential exactly while
\* now <= the stored expiry, now = expiry included; after that it is answered 400 and
\* changes nothing, at every retry.
ResetHonoursExpiry ==
    \A i \in DOMAIN users :
        (users[i].reset_token # NULL /\ users[i].reset_expires # NULL)
        => \A p \in ValidPasswords, salt \in Salts :
               LET o == reset([ email |-> users[i].email,
                                resetToken |-> users[i].reset_token[1],
                                newPassword |-> p ], salt)
               IN  IF now <= users[i].reset_expires[1]
                   THEN /\ o.status = 200
                        /\ verifyPassword(p, o.users[i].password_hash)
                        /\ o.users[i].password_hash = hashPassword(p, salt)
                   ELSE /\ o.status = 400
                        /\ o.users = users

\* one user's token is at its very expiry and still accepted, another's is past it
\* and refused
ResetExpiryWitness ==
    \E i, j \in DOMAIN users :
        /\ users[i].reset_token # NULL
        /\ users[i].reset_expires = << now >>
        /\ reset([ email |-> users[i].email, resetToken |-> users[i].reset_token[1],
                   newPassword |-> Pw2 ], "5a").status = 200
        /\ users[j].reset_token # NULL
        /\ users[j].reset_expires[1] < now
        /\ reset([ email |-> users[j].email, resetToken |-> users[j].reset_token[1],
                   newPassword |-> Pw2 ], "5a").status = 400

\* C9: when request-reset has answered a user twice with different tokens, the record
\* holds the second token only: a reset carrying the first is answered 400 and changes
\* nothing, one carrying the second succeeds while it is unspent and unexpired.
OneActiveReset ==
    \A e \in Emails :
        (rst[e].cur # NULL /\ rst[e].prev # NULL)
        => /\ rst[e].prev # rst[e].cur
           /\ users[RowOf(e)].reset_token = IF rst[e].used = NULL THEN rst[e].cur ELSE NULL
           /\ \A p \in ValidPasswords, salt \in Salts :
                  LET first == reset([ email |-> e, resetToken |-> rst[e].prev[1],
                                       newPassword |-> p ], salt)
                      second == reset([ email |-> e, resetToken |-> rst[e].cur[1],
                                        newPassword |-> p ], salt)
                  IN  /\ first.status = 400
                      /\ first.users = users
                      /\ (rst[e].used = NULL /\ now <= users[RowOf(e)].reset_expires[1])
                         => second.status = 200

\* a second request-reset has replaced the token: the first is refused, the second works
OverwrittenTokenWitness ==
    \E e \in Emails :
        /\ rst[e].prev # NULL
        /\ rst[e].used = NULL
        /\ reset([ email |-> e, resetToken |-> rst[e].prev[1], newPassword |-> Pw2 ],
                 "5a").status = 400
        /\ reset([ email |-> e, resetToken |-> rst[e].cur[1], newPassword |-> Pw2 ],
                 "5a").status = 200

\* C10: every user record has reset token and reset expiry both set or both absent;
\* a successful reset replaces the credential and clears both in one step: the token
\* is stored exactly while it was issued and not yet spent, and the credential is
\* always the one of the password most recently set.
ResetFieldsPaired ==
    /\ \A i \in DOMAIN users :
           LET e == users[i].email
           IN  /\ (users[i].reset_token = NULL) <=> (users[i].reset_expires = NULL)
               /\ (users[i].reset_token # NULL) <=> (rst[e].cur # NULL /\ rst[e].used = NULL)
               /\ setPw[e] # NULL
               /\ verifyPassword(setPw[e][1], users[i].password_hash)
    /\ \A body \in ResetBodies, salt \in Salts :
           LET o == reset(body, salt)
           IN  IF o.status = 200
               THEN LET i == RowOf(Mailbox(body.email))
                    IN  /\ o.users[i].reset_token = NULL
                        /\ o.users[i].reset_expires = NULL
                        /\ verifyPassword(body.newPassword, o.users[i].password_hash)
                        /\ \A j \in DOMAIN users : j # i => o.users[j] = users[j]
               ELSE o.users = users

\* one user has spent a token (both fields cleared, new credential in place) while
\* another has one pending (both fields set)
ResetAtomicWitness ==
    \E i, j \in DOMAIN users :
        /\ rst[users[i].email].used # NULL
        /\ users[i].reset_token = NULL
        /\ users[i].reset_expires = NULL
        /\ setPw[users[i].email] = << Pw2 >>
        /\ verifyPassword(Pw2, users[i].password_hash)
        /\ users[j].reset_token # NULL
        /\ users[j].reset_expires # NULL

\* reset bodies that pass the field validation of POST /auth/reset
WellFormedResets ==
    { b \in ResetBodies : Trim(b.email) # <<>> /\ Trim(b.resetToken) # <<>>
                          /\ Len(b.newPassword) >= MIN_PASSWORD }

\* C11: every failing reset with well-formed input (unknown email, no pending token,
\* token mismatch, expired token) gets the same status and the same response body.
ResetFailureUniform ==
    \A b1, b2 \in WellFormedResets :
        LET o1 == reset(b1, "c3")
            o2 == reset(b2, "c3")
        IN  (o1.status # 200 /\ o2.status # 200)
            => (o1.status = o2.status /\ o1.body = o2.body)

\* C12: request-reset reports success for an unregistered email, and its response has
\* the same status and the same body shape (the same fields) whether or not the email
\* is registered.
RequestResetShapeUniform ==
    \A b1, b2 \in RequestResetBodies, k \in ResetTokens :
        LET o1 == requestReset(b1, k)
            o2 == requestReset(b2, k)
        IN  (Trim(b1.email) # <<>> /\ Trim(b2.email) # <<>>)
            => /\ o1.status = 200
               /\ o1.body.success
               /\ o1.status = o2.status
               /\ DOMAIN o1.body = DOMAIN o2.body

\* ------------------------------------------------------------- SpecData
\* SpecData: the per-user data (theme, search history) of two users under a running
\* clock, with valid and invalid theme and history bodies
DataRegisterBodies == [ email : { <<"a">>, <<"b">> }, name : { <<"n">> }, password : { Pw1 } ]
DataThemeBodies == [ theme : { "", "light", "neon" } ]
DataHistoryBodies == [ city : CityInputs, lang : LangInputs ]

NextData ==
    \/ \E body \in DataRegisterBodies : Register(body, "5a")
    \/ \E auth \in AuthHeaders : Me(auth)
    \/ \E auth \in AuthHeaders : HistoryGet(auth)
    \/ \E auth \in AuthHeaders : Arrive("theme", auth)
    \/ \E auth \in AuthHeaders : Arrive("history-post", auth)
    \/ \E c \in BagToSet(pending), body \in DataThemeBodies : ThemeBody(c, body)
    \/ \E c \in BagToSet(pending), body \in DataHistoryBodies : HistoryPostBody(c, body)
    \/ Tick(1)

SpecData == Init /\ [][NextData]_vars

\* C13: logout is answered 200 for every header (live token, unknown token, no header,
\* another scheme) and removes at most the presented token: every other session,
\* other sessions of the same user included, still maps to the same user, and users
\* and searches are unchanged.
LogoutRemovesOnlyItsToken ==
    \A auth \in AllHeaders :
        LET o == logout(auth)
            presented == IF auth = <<>> THEN {} ELSE { auth[2] }
        IN  /\ o.status = 200
            /\ o.body = [ success |-> TRUE ]
            /\ o.users = users
            /\ o.searches = searches
            /\ DOMAIN o.sessions \subseteq DOMAIN sessions
            /\ DOMAIN sessions \ presented \subseteq DOMAIN o.sessions
            /\ \A t \in DOMAIN o.sessions : o.sessions[t] = sessions[t]
            /\ (auth # <<>> /\ auth[1] = "Bearer") => auth[2] \notin DOMAIN o.sessions

\* a user with a search entry holds two live sessions, and logging one out leaves
\* the other resolving to that user
TwoSessionsWitness ==
    \E t1, t2 \in DOMAIN sessions :
        /\ t1 # t2
        /\ sessions[t1] = sessions[t2]
        /\ \E i \in DOMAIN searches : searches[i].user_id = sessions[t1]
        /\ t1 \notin DOMAIN logout(Bearer(t1)).sessions
        /\ logout(Bearer(t1)).sessions[t2] = sessions[t2]
        /\ logout(Bearer(ForgedToken)).sessions = sessions

\* ------------------------------------------------------------- SpecCodec
\* SpecCodec: hashPassword and verifyPassword applied to passwords and to stored
\* strings, the ones hashPassword writes and malformed ones
CodecPasswords == { PwShort, Pw1, Pw2 }
GoodStored == { hashPassword(p, salt) : p \in { Pw1, Pw2 }, salt \in Salts }

\* iteration fields that are no positive integer: empty, non-numeric, zero, negative,
\* fractional, infinite
BadIterInputs == { <<>>, << "a", "b", "c" >>, << "0" >>, << "-", "5" >>, << "1", ".", "5" >>,
                   << "I", "n", "f", "i", "n", "i", "t", "y" >> }

WrongFieldCount == { << "" >> } \cup { SubSeq(g, 1, 2) : g \in GoodStored }
                       \cup { Append(g, "x") : g \in GoodStored }
BadIter == { [ g EXCEPT ![3] = i ] : g \in GoodStored, i \in BadIterInputs }
UnknownDigest == { [ g EXCEPT ![2] = "md0" ] : g \in GoodStored }
EmptyField == { [ g EXCEPT ![2] = "" ] : g \in GoodStored }
                  \cup { [ g EXCEPT ![4] = "" ] : g \in GoodStored }
                  \cup { [ g EXCEPT ![5] = <<>> ] : g \in GoodStored }
\* half of the hash's characters: 16 bytes where the derived key has 32
WrongHashLength == { [ g EXCEPT ![5] = << g[5][1], g[5][2] \div 2 >> ] : g \in GoodStored }

MalformedStored == WrongFieldCount \cup BadIter \cup UnknownDigest \cup EmptyField
                       \cup WrongHashLength
StoredInputs == GoodStored \cup MalformedStored

HashPassword(password, salt) ==
    /\ ret' = [ fn |-> "hashPassword", args |-> << password, salt >>,
                val |-> hashPassword(password, salt) ]
    /\ UNCHANGED << users, searches, sessions, now, nextToken, pending, hist, conn, OW_KEY, front >>

VerifyPassword(password, stored) ==
    /\ ret' = [ fn |-> "verifyPassword", args |-> << password, stored >>,
                throws |-> verifyPasswordThrows(password, stored),
                val |-> verifyPassword(password, stored) ]
    /\ UNCHANGED << users, searches, sessions, now, nextToken, pending, hist, conn, OW_KEY, front >>

\* verifyPassword applied to what hashPassword has just returned
VerifyHashed(password) ==
    /\ ret.fn = "hashPassword"
    /\ ret' = [ fn |-> "verifyHashed", hashed |-> ret.args[1], salt |-> ret.args[2],
                args |-> << password, ret.val >>,
                throws |-> verifyPasswordThrows(password, ret.val),
                val |-> verifyPassword(password, ret.val) ]
    /\ UNCHANGED << users, searches, sessions, now, nextToken, pending, hist, conn, OW_KEY, front >>

NextCodec ==
    \/ \E password \in CodecPasswords, salt \in Salts : HashPassword(password, salt)
    \/ \E password \in CodecPasswords : VerifyHashed(password)
    \/ \E password \in CodecPasswords, stored \in StoredInputs : VerifyPassword(password, stored)

SpecCodec == Init /\ [][NextCodec]_vars

\* C14: verifyPassword returns false and does not throw for every malformed stored
\* credential: a field count other than five, an iteration field that is no positive
\* integer, an unknown digest, an empty field, a hash of another length than the key.
VerifyRejectsMalformed ==
    (ret.fn = "verifyPassword" /\ ret.args[2] \in MalformedStored)
    => (~ret.throws /\ ret.val = FALSE)

\* C15: for all passwords P, P' and every salt, verifyPassword(P', hashPassword(P))
\* does not throw and is true exactly when P' = P.
HashVerifyRoundTrip ==
    ret.fn = "verifyHashed" => (~ret.throws /\ ret.val = (ret.args[1] = ret.hashed))

\* a password verified against its own hash
RoundTripWitness ==
    /\ ret.fn = "verifyHashed"
    /\ ret.hashed = Pw2
    /\ ret.salt = "c3"
    /\ ret.args[1] = Pw2
    /\ ret.val

\* the entry GET /history shows for row i of searches
EntryOf(i) ==
    [ city |-> searches[i].city, lang |-> searches[i].lang,
      created_at |-> searches[i].created_at ]

\* the row of userId inserted last
NewestRowOf(userId) == CHOOSE i \in RowsOf(userId) : \A j \in RowsOf(userId) : j <= i

\* C16: after n inserts by user u, GET /history for u returns min(n, 50) entries in
\* descending order of created_at with the entry inserted last in first place, also
\* when inserts share a timestamp.
HistoryNewestFirst ==
    \A u \in DOMAIN users :
        LET n == Cardinality(RowsOf(u))
        IN  \A rows \in HistoryOrders(u) :
                /\ Len(rows) = IF n < HISTORY_LIMIT THEN n ELSE HISTORY_LIMIT
                /\ \A i, j \in DOMAIN rows : i < j => rows[i].created_at >= rows[j].created_at
                /\ n > 0 => rows[1] = EntryOf(NewestRowOf(u))

\* the outcomes of every handler on every input, in the current state
AnyOutcome ==
    { register(b, salt) : b \in RegisterBodies, salt \in Salts }
        \cup { login(b) : b \in LoginBodies }
        \cup { logout(auth) : auth \in AllHeaders }
        \cup { requestReset(b, k) : b \in RequestResetBodies, k \in ResetTokens }
        \cup { reset(b, salt) : b \in ResetBodies, salt \in Salts }
        \cup { me(auth) : auth \in AllHeaders }
        \cup UNION { { historyGet(auth, rows) : rows \in HistoryOrders(requireAuth(auth)) } :
                     auth \in AllHeaders }
        \cup { meTheme(u, b) : u \in DOMAIN users, b \in ThemeBodies }
        \cup { historyPost(u, b) : u \in DOMAIN users, b \in HistoryBodies }

\* C17: no operation modifies or removes a search entry; a successful POST /history
\* by user u appends exactly one entry owned by u and changes nothing else; and
\* GET /history with a session of u returns entries of rows owned by u only.
HistoryAppendOnlyPerUser ==
    /\ \A o \in AnyOutcome :
           /\ Len(o.searches) >= Len(searches)
           /\ SubSeq(o.searches, 1, Len(searches)) = searches
    /\ \A u \in DOMAIN users, b \in HistoryBodies :
           LET o == historyPost(u, b)
           IN  o.status = 200
               => /\ Len(o.searches) = Len(searches) + 1
                  /\ o.searches[Len(o.searches)].user_id = u
                  /\ o.users = users
                  /\ o.sessions = sessions
    /\ \A t \in DOMAIN issuedTo \ revoked :
           \A rows \in HistoryOrders(requireAuth(Bearer(t))) :
               LET o == historyGet(Bearer(t), rows)
               IN  /\ o.status = 200
                   /\ Len(o.body.history) = Cardinality(RowsOf(issuedTo[t]))
                   /\ \A k \in DOMAIN o.body.history :
                          \E i \in DOMAIN searches :
                              /\ searches[i].user_id = issuedTo[t]
                              /\ o.body.history[k] = EntryOf(i)

\* two users with live sessions: one has an entry and sees it, the other sees an
\* empty history and can still add an entry of their own
HistoryPerUserWitness ==
    \E t1, t2 \in DOMAIN sessions :
        /\ sessions[t1] # sessions[t2]
        /\ RowsOf(sessions[t1]) = {}
        /\ RowsOf(sessions[t2]) # {}
        /\ historyGet(Bearer(t1), <<>>).body.history = <<>>
        /\ \A rows \in HistoryOrders(sessions[t2]) : Len(historyGet(Bearer(t2), rows).body.history) = 1
        /\ historyPost(sessions[t1], [ city |-> << "O", "s", "l", "o", " " >>, lang |-> <<"r", "u">> ]).status = 200

\* a city that is missing or blank, and the lang values that name en or ru (a missing
\* lang stands for en)
BlankCity(city) == \A k \in DOMAIN city : city[k] = " "
LangAccepted == { <<>>, <<"e", "n">>, <<"r", "u">>, <<" ", "r", "u">> }

Themes == { "system", "light", "dark" }

DATE_KEY_LEN == 10
MAX_DAYS == 6

\* dtTxt.slice(0, 10)
DateKeyOf(item) ==
    SubSeq(item.dt_txt, 1, IF Len(item.dt_txt) < DATE_KEY_LEN THEN Len(item.dt_txt) ELSE DATE_KEY_LEN)

TminOfSkipsTemp(item) ==
    IF item.temp_min # NULL THEN item.temp_min[1] ELSE 0

\* item.main?.temp_min ?? item.main?.temp ?? 0, and the same for temp_max
TminOf(item) ==
    IF item.temp_min # NULL THEN item.temp_min[1]
    ELSE IF item.temp # NULL THEN item.temp[1] ELSE 0

TmaxOf(item) ==
    IF item.temp_max # NULL THEN item.temp_max[1]
    ELSE IF item.temp # NULL THEN item.temp[1] ELSE 0

MathMinKeepsFirst(a, b) == a

MathMin(a, b) == IF a < b THEN a ELSE b
MathMax(a, b) == IF a > b THEN a ELSE b

\* one turn of the loop over data.list
ByDayStep(byDay, item) ==
    LET dateKey == DateKeyOf(item)
        day == IF dateKey \notin DOMAIN byDay
               THEN [ min |-> TminOf(item), max |-> TmaxOf(item),
                      descriptions |-> <<>>, icons |-> <<>> ]
               ELSE [ byDay[dateKey] EXCEPT !.min = MathMin(@, TminOf(item)),
                                            !.max = MathMax(@, TmaxOf(item)) ]
        pushed == [ day EXCEPT
                      !.descriptions = IF item.description # "" THEN Append(@, item.description) ELSE @,
                      !.icons = IF item.icon # "" THEN Append(@, item.icon) ELSE @ ]
    IN  IF dateKey = <<>> THEN byDay
        ELSE [ k \in DOMAIN byDay \cup { dateKey } |-> IF k = dateKey THEN pushed ELSE byDay[k] ]

RECURSIVE ByDay(_)
ByDay(list) ==
    IF list = <<>> THEN [ k \in {} |-> 0 ]
    ELSE ByDayStep(ByDay(SubSeq(list, 1, Len(list) - 1)), list[Len(list)])

\* code-unit order of the characters of a timestamp
CharOrder == << " ", "-", "0", "1", "2", "3", "4", "5", "6", "7", "8", "9", ":" >>
CharRank(c) == CHOOSE r \in DOMAIN CharOrder : CharOrder[r] = c

RECURSIVE StringLess(_, _)
StringLess(a, b) ==
    IF b = <<>> THEN FALSE
    ELSE IF a = <<>> THEN TRUE
    ELSE IF Head(a) # Head(b) THEN CharRank(Head(a)) < CharRank(Head(b))
    ELSE StringLess(Tail(a), Tail(b))

RECURSIVE SortKeysDescending(_)
SortKeysDescending(keys) ==
    IF keys = {} THEN <<>>
    ELSE LET last == CHOOSE k \in keys : \A other \in keys \ { k } : StringLess(other, k)
         IN  << last >> \o SortKeysDescending(keys \ { last })

\* Object.keys(byDay).sort()
RECURSIVE SortKeys(_)
SortKeys(keys) ==
    IF keys = {} THEN <<>>
    ELSE LET first == CHOOSE k \in keys : \A other \in keys \ { k } : StringLess(k, other)
         IN  << first >> \o SortKeys(keys \ { first })

\* .slice(0, 6)
SliceDaysKeepsAll(keys) == keys

SliceDays(keys) == SubSeq(keys, 1, IF Len(keys) < MAX_DAYS THEN Len(keys) ELSE MAX_DAYS)

\* Math.round(x * 10) / 10 of x hundredths, in tenths: halves go up
MathRound1(x) == (x + 5) \div 10

\* the forecast array
forecastOf(list) ==
    LET byDay == ByDay(list)
        days == SliceDays(SortKeys(DOMAIN byDay))
    IN  [ n \in DOMAIN days |->
            LET day == byDay[days[n]]
            IN  [ date |-> days[n],
                  min |-> MathRound1(day.min),
                  max |-> MathRound1(day.max),
                  description |-> IF day.descriptions # <<>> THEN day.descriptions[1] ELSE "",
                  icon |-> IF day.icons # <<>> THEN day.icons[1] ELSE "" ] ]

\* GET /api/forecast once owGet has returned data: data.list || []
apiForecast(city, data) ==
    Reply(200, [ city |-> city, forecast |-> forecastOf(data.list) ])

\* ---- the upstream samples the forecast is checked on
MaxSamples == 2

DateOf(d) == << "2", "0", "2", "4", "-", "0", "1", "-", "0", d >>
At(date, h) == date \o << " ", h[1], h[2], ":", "0", "0", ":", "0", "0" >>

SampleInputs ==
    { [ dt_txt |-> At(DateOf("1"), << "0", "9" >>), temp_min |-> << 125 >>, temp_max |-> << 250 >>,
        temp |-> << 200 >>, description |-> "rain", icon |-> "10d" ],
      [ dt_txt |-> At(DateOf("1"), << "1", "2" >>), temp_min |-> << -25 >>, temp_max |-> << 1005 >>,
        temp |-> NULL, description |-> "clear", icon |-> "01d" ],
      [ dt_txt |-> At(DateOf("2"), << "0", "9" >>), temp_min |-> NULL, temp_max |-> NULL,
        temp |-> << 314 >>, description |-> "", icon |-> "" ],
      [ dt_txt |-> At(DateOf("2"), << "1", "2" >>), temp_min |-> NULL, temp_max |-> NULL,
        temp |-> NULL, description |-> "snow", icon |-> "" ],
      [ dt_txt |-> At(DateOf("3"), << "0", "9" >>), temp_min |-> << -1235 >>, temp_max |-> << -5 >>,
        temp |-> NULL, description |-> "", icon |-> "13n" ],
      [ dt_txt |-> <<>>, temp_min |-> << 100 >>, temp_max |-> << 900 >>,
        temp |-> NULL, description |-> "fog", icon |-> "50d" ],
      [ dt_txt |-> << "2", "0", "2", "4" >>, temp_min |-> << 15 >>, temp_max |-> << 25 >>,
        temp |-> NULL, description |-> "mist", icon |-> "50n" ],
      [ dt_txt |-> At(DateOf("4"), << "0", "9" >>), temp_min |-> NULL, temp_max |-> NULL,
        temp |-> << -35 >>, description |-> "sleet", icon |-> "13d" ],
      [ dt_txt |-> At(DateOf("3"), << "1", "2" >>), temp_min |-> NULL, temp_max |-> << 420 >>,
        temp |-> << -1300 >>, description |-> "hail", icon |-> "" ] }

\* lists of at most MaxSamples samples, in every order and with repetition
ShortLists == UNION { [ 1..n -> SampleInputs ] : n \in 0..MaxSamples }

\* one sample for each of MAX_DAYS + 1 days, the day d at d degrees
LongDays == << "1", "2", "3", "4", "5", "6", "7" >>
LongSample(n) ==
    [ dt_txt |-> At(DateOf(LongDays[n]), << "1", "2" >>), temp_min |-> << 100 * n - 45 >>,
      temp_max |-> << 100 * n + 45 >>, temp |-> NULL, description |-> "clouds", icon |-> "04d" ]

\* the upstream answer for MAX_DAYS + 1 days, its samples in every order
LongLists ==
    { [ i \in DOMAIN LongDays |-> LongSample(p[i]) ] :
        p \in { q \in [ DOMAIN LongDays -> DOMAIN LongDays ] :
                  \A n \in DOMAIN LongDays : \E i \in DOMAIN LongDays : q[i] = n } }

\* the samples of two days at 2, 5, 8 and at -1, 3 degrees, in every order
ExampleSamples ==
    << [ dt_txt |-> At(DateOf("1"), << "0", "9" >>), temp_min |-> NULL, temp_max |-> NULL,
         temp |-> << 200 >>, description |-> "rain", icon |-> "10d" ],
       [ dt_txt |-> At(DateOf("1"), << "1", "2" >>), temp_min |-> NULL, temp_max |-> NULL,
         temp |-> << 500 >>, description |-> "clear", icon |-> "01d" ],
       [ dt_txt |-> At(DateOf("1"), << "1", "5" >>), temp_min |-> NULL, temp_max |-> NULL,
         temp |-> << 800 >>, description |-> "clouds", icon |-> "" ],
       [ dt_txt |-> At(DateOf("2"), << "0", "9" >>), temp_min |-> NULL, temp_max |-> NULL,
         temp |-> << -100 >>, description |-> "", icon |-> "13n" ],
       [ dt_txt |-> At(DateOf("2"), << "1", "2" >>), temp_min |-> NULL, temp_max |-> NULL,
         temp |-> << 300 >>, description |-> "snow", icon |-> "13d" ] >>

ExampleLists ==
    { [ i \in DOMAIN ExampleSamples |-> ExampleSamples[p[i]] ] :
        p \in { q \in [ DOMAIN ExampleSamples -> DOMAIN ExampleSamples ] :
                  \A n \in DOMAIN ExampleSamples : \E i \in DOMAIN ExampleSamples : q[i] = n } }

ForecastCity == << "O", "s", "l", "o" >>

\* the upstream answer that the handler is suspended on: await owGet("/forecast", ...)
OwGet(city, list) ==
    /\ ret = NoCall
    /\ ret' = [ fn |-> "owGet", args |-> << city >>, val |-> [ list |-> list ] ]
    /\ UNCHANGED << users, searches, sessions, now, nextToken, pending, hist, conn, OW_KEY, front >>

\* the rest of the handler, on the answer owGet has returned
Forecast ==
    /\ ret.fn = "owGet"
    /\ ret' = [ fn |-> "forecast", args |-> << ret.args[1], ret.val.list >>,
                val |-> apiForecast(ret.args[1], ret.val) ]
    /\ UNCHANGED << users, searches, sessions, now, nextToken, pending, hist, conn, OW_KEY, front >>

NextForecast ==
    \/ \E list \in ShortLists \cup LongLists \cup ExampleLists : OwGet(ForecastCity, list)
    \/ Forecast

SpecForecast == Init /\ [][NextForecast]_vars

DateKeys(list) == { DateKeyOf(list[i]) : i \in DOMAIN list } \ { <<>> }

\* C20: the forecast that GET /api/forecast returns has at most 6 entries however many
\* distinct dates the samples cover; an empty sample list gives status 200 with an
\* empty forecast, and a single dated sample gives exactly one day.
ForecastAtMostSixDays ==
    ret.fn = "forecast" =>
        LET list == ret.args[2]
            forecast == ret.val.body.forecast
        IN  /\ ret.val.status = 200
            /\ Len(forecast) <= 6
            /\ list = <<>> => forecast = <<>>
            /\ (Len(list) = 1 /\ list[1].dt_txt # <<>>) => Len(forecast) = 1

ForecastCappedWitness ==
    /\ ret.fn = "forecast"
    /\ Cardinality(DateKeys(ret.args[2])) > 6
    /\ Len(ret.val.body.forecast) = 6

DatesOf(forecast) == [ n \in DOMAIN forecast |-> forecast[n].date ]

\* C21: the forecast has exactly one entry per distinct date key of the samples (the
\* first 10 characters of dt_txt; a sample with an empty dt_txt contributes nothing),
\* in strictly ascending date order whatever the order of the samples, and with more
\* than 6 distinct dates the entries kept are exactly the 6 earliest ones.
ForecastOneEntryPerDate ==
    ret.fn = "forecast" =>
        LET keys == DateKeys(ret.args[2])
            dates == DatesOf(ret.val.body.forecast)
            kept == { dates[n] : n \in DOMAIN dates }
        IN  /\ \A n \in DOMAIN dates : \A m \in DOMAIN dates : n < m => StringLess(dates[n], dates[m])
            /\ kept \subseteq keys
            /\ Cardinality(keys) <= 6 => kept = keys
            /\ Cardinality(keys) > 6 =>
                 /\ Len(dates) = 6
                 /\ \A k \in keys \ kept : \A d \in kept : StringLess(d, k)

\* seven dates arriving latest first, the latest one dropped
ForecastUnorderedWitness ==
    /\ ret.fn = "forecast"
    /\ Cardinality(DateKeys(ret.args[2])) = 7
    /\ \A i \in 1..6 : StringLess(DateKeyOf(ret.args[2][i + 1]), DateKeyOf(ret.args[2][i]))
    /\ DatesOf(ret.val.body.forecast) = [ n \in 1..6 |-> DateOf(LongDays[n]) ]

SamplesOn(list, date) == { i \in DOMAIN list : DateKeyOf(list[i]) = date }

\* C22: for every returned day, min is the minimum of the samples' minimum
\* temperatures of that date and max the maximum of their maximum temperatures, to one
\* decimal place, whatever the order of the samples; the samples 2024-01-01 at 2, 5, 8
\* and 2024-01-02 at -1, 3 give min 2, max 8 and then min -1, max 3.
ForecastMinMaxPerDate ==
    ret.fn = "forecast" =>
        LET list == ret.args[2]
            forecast == ret.val.body.forecast
        IN  /\ \A n \in DOMAIN forecast :
                 LET on == SamplesOn(list, forecast[n].date)
                     lo == CHOOSE t \in { TminOf(list[i]) : i \in on } :
                             \A i \in on : t <= TminOf(list[i])
                     hi == CHOOSE t \in { TmaxOf(list[i]) : i \in on } :
                             \A i \in on : t >= TmaxOf(list[i])
                 IN  /\ on # {}
                     /\ 10 * forecast[n].min - 5 <= lo /\ lo <= 10 * forecast[n].min + 5
                     /\ 10 * forecast[n].max - 5 <= hi /\ hi <= 10 * forecast[n].max + 5
            /\ list \in ExampleLists =>
                 [ n \in DOMAIN forecast |-> << forecast[n].date, forecast[n].min, forecast[n].max >> ]
                   = << << DateOf("1"), 20, 80 >>, << DateOf("2"), -10, 30 >> >>

\* the coldest sample of a day arriving after a warmer one
ForecastMinLaterWitness ==
    /\ ret.fn = "forecast"
    /\ ret.args[2] \in ExampleLists
    /\ \E i, j \in DOMAIN ret.args[2] :
         /\ i < j
         /\ DateKeyOf(ret.args[2][i]) = DateKeyOf(ret.args[2][j])
         /\ TminOf(ret.args[2][j]) < TminOf(ret.args[2][i])
         /\ ret.val.body.forecast[1].min * 10 = TminOf(ret.args[2][j])

FirstOn(list, date) == CHOOSE i \in SamplesOn(list, date) : \A j \in SamplesOn(list, date) : i <= j

NoTemperature(item) == item.temp_min = NULL /\ item.temp_max = NULL /\ item.temp = NULL
OnlyTemp(item) == item.temp_min = NULL /\ item.temp_max = NULL /\ item.temp # NULL
MinCandidate(item) ==
    CASE item.temp_min # NULL -> item.temp_min[1]
      [] item.temp_min = NULL /\ item.temp # NULL -> item.temp[1]
      [] OTHER -> 0
MaxCandidate(item) ==
    CASE item.temp_max # NULL -> item.temp_max[1]
      [] item.temp_max = NULL /\ item.temp # NULL -> item.temp[1]
      [] OTHER -> 0

\* C32: the minimum candidate of a sample is its temp_min if present, else its temp,
\* else 0, and the maximum candidate its temp_max if present, else its temp, else 0: a
\* day with one sample is reported with these two candidates, a day whose one sample
\* carries only temp with that value as min and as max, a day with several samples
\* between the least and the greatest candidate, and a day whose samples carry no
\* temperature at all with min = max = 0.
ForecastTemperatureFallbacks ==
    ret.fn = "forecast" =>
        LET list == ret.args[2]
            forecast == ret.val.body.forecast
        IN  \A n \in DOMAIN forecast :
                LET on == SamplesOn(list, forecast[n].date)
                IN  /\ \A i \in on :
                         /\ forecast[n].min <= MathRound1(MinCandidate(list[i]))
                         /\ forecast[n].max >= MathRound1(MaxCandidate(list[i]))
                    /\ \E i \in on : forecast[n].min = MathRound1(MinCandidate(list[i]))
                    /\ \E i \in on : forecast[n].max = MathRound1(MaxCandidate(list[i]))
                    /\ \A i \in on :
                         (on = { i } /\ OnlyTemp(list[i])) =>
                             /\ forecast[n].min = MathRound1(list[i].temp[1])
                             /\ forecast[n].max = MathRound1(list[i].temp[1])
                    /\ (\A i \in on : NoTemperature(list[i])) =>
                         (forecast[n].min = 0 /\ forecast[n].max = 0)

\* a forecast of two days, the samples of one without any temperature and the one
\* sample of the other with temp alone, below zero
ForecastFallbackWitness ==
    /\ ret.fn = "forecast"
    /\ \E n, m \in DOMAIN ret.val.body.forecast :
         /\ \A i \in SamplesOn(ret.args[2], ret.val.body.forecast[n].date) :
              NoTemperature(ret.args[2][i])
         /\ ret.val.body.forecast[n].min = 0 /\ ret.val.body.forecast[n].max = 0
         /\ \A i \in SamplesOn(ret.args[2], ret.val.body.forecast[m].date) :
              OnlyTemp(ret.args[2][i])
         /\ ret.val.body.forecast[m].min < 0
         /\ ret.val.body.forecast[m].max = ret.val.body.forecast[m].min

\* C23: for every returned day, the description and the icon are both those of the
\* first sample of that date in input order, whatever the later samples of the date
\* carry.
ForecastFirstSampleWins ==
    ret.fn = "forecast" =>
        \A n \in DOMAIN ret.val.body.forecast :
            LET day == ret.val.body.forecast[n]
                first == ret.args[2][FirstOn(ret.args[2], day.date)]
            IN  /\ day.description = first.description
                /\ day.icon = first.icon

\* C24: each output min and max is the bucket value rounded to one decimal place, ties
\* at .x5 going away from zero for positive and for negative temperatures: 0.25 gives
\* 0.3 and -0.25 gives -0.3.
RoundHalfAwayFromZero(x) == IF x >= 0 THEN (x + 5) \div 10 ELSE -((-x + 5) \div 10)

ForecastRoundsHalfAwayFromZero ==
    (ret.fn = "forecast" /\ Len(ret.args[2]) = 1) =>
        \A n \in DOMAIN ret.val.body.forecast :
            /\ ret.val.body.forecast[n].min = RoundHalfAwayFromZero(TminOf(ret.args[2][1]))
            /\ ret.val.body.forecast[n].max = RoundHalfAwayFromZero(TmaxOf(ret.args[2][1]))

\* ------------------------------------------------------------- dispatch
\* The request handler as Node runs it: one call per request, which runs until it
\* returns or suspends at an await (readJsonBody, owGet), and resumes when the awaited
\* promise settles.  Between two awaits nothing else runs.
\* A request is [method, path, auth, city]; conn[c] is the position of the handler of
\* the request on connection c with the number of responses it has written to res:
\*   [at |-> "body", ...]      suspended in readJsonBody
\*   [at |-> "upstream", ...]  suspended in owGet
\*   [at |-> "pbkdf2", ...]    inside pbkdf2Sync, which occupies the thread
\*   [at |-> "done", ...]      returned
BodyPaths == { "/auth/register", "/auth/login", "/auth/request-reset", "/auth/reset" }
UpstreamPaths == { "/api/weather", "/api/forecast" }

notFound == Reply(404, Err("Not found"))
methodNotAllowed == Reply(405, Err("Method not allowed"))

CaughtAsSuccess(message) == Reply(200, Err(message))

\* what the catch of the request handler answers
Caught(message) == Reply(500, Err(message))

requireOwKeyNever == NULL

\* requireOwKey: the response it sends when the key is missing
requireOwKey ==
    IF ~OW_KEY THEN << Reply(500, Err("OPENWEATHER_API_KEY missing")) >> ELSE NULL

Returned(o) == [ at |-> "done", o |-> << o >>, userId |-> 0 ]
Suspended(at, userId) == [ at |-> at, o |-> NULL, userId |-> userId ]

\* the handler from its entry to its first await or to its return; rows is the order
\* in which the store returns the history
dispatch(req, rows) ==
    IF req.method = "OPTIONS" THEN Returned(Reply(204, <<>>))
    ELSE IF req.path = "/" /\ req.method = "GET"
    THEN Returned(Reply(200, [ message |-> "Backend is working!" ]))
    ELSE IF req.path \in BodyPaths
    THEN IF req.method # "POST" THEN Returned(methodNotAllowed) ELSE Suspended("body", 0)
    ELSE IF req.path = "/auth/logout"
    THEN IF req.method # "POST" THEN Returned(methodNotAllowed) ELSE Returned(logout(req.auth))
    ELSE IF req.path = "/me"
    THEN IF req.method # "GET" THEN Returned(methodNotAllowed) ELSE Returned(me(req.auth))
    ELSE IF req.path = "/me/theme"
    THEN IF requireAuth(req.auth) = 0 THEN Returned(Unauthorized)
         ELSE IF req.method # "PUT" THEN Returned(methodNotAllowed)
         ELSE Suspended("body", requireAuth(req.auth))
    ELSE IF req.path = "/history" /\ req.method = "GET"
    THEN Returned(historyGet(req.auth, rows))
    ELSE IF req.path = "/history" /\ req.method = "POST"
    THEN IF requireAuth(req.auth) = 0 THEN Returned(Unauthorized)
         ELSE Suspended("body", requireAuth(req.auth))
    ELSE IF req.path \in UpstreamPaths /\ req.method = "GET"
    THEN IF requireOwKey # NULL THEN Returned(requireOwKey[1])
         ELSE IF Trim(req.city) = <<>> THEN Returned(Reply(400, Err("city is required")))
         ELSE Suspended("upstream", 0)
    ELSE Returned(notFound)

\* readJsonBody: the request body as it arrived is [json |-> FALSE] when JSON.parse
\* throws and [json |-> TRUE, body |-> the parsed object] otherwise
InvalidJson == [ json |-> FALSE ]
Json(body) == [ json |-> TRUE, body |-> body ]

\* the handler from the return of readJsonBody to its own return
afterBody(path, userId, body, salt, resetToken) ==
    IF path = "/auth/register" THEN register(body, salt)
    ELSE IF path = "/auth/login" THEN login(body)
    ELSE IF path = "/auth/request-reset" THEN requestReset(body, resetToken)
    ELSE IF path = "/auth/reset" THEN reset(body, salt)
    ELSE IF path = "/me/theme" THEN meTheme(userId, body)
    ELSE historyPost(userId, body)

\* whether the handler gets as far as hashPassword or verifyPassword
derivesKey(path, body) ==
    \/ path = "/auth/register" /\ register(body, "5a").status = 201
    \/ path = "/auth/reset" /\ reset(body, "5a").status = 200
    \/ /\ path = "/auth/login"
       /\ login(body).status # 400
       /\ userByEmail(ToLowerCase(Trim(body.email))) # NULL

\* owGet: fetch rejects, the status is not 2xx, r.json() rejects, or the data
owGet(answer) ==
    IF ~answer.fetched THEN [ threw |-> TRUE, message |-> "fetch failed" ]
    ELSE IF ~answer.ok THEN [ threw |-> TRUE, message |-> "OpenWeather error" ]
    ELSE IF ~answer.json THEN [ threw |-> TRUE, message |-> "Unexpected token" ]
    ELSE [ threw |-> FALSE, data |-> answer.data ]

\* GET /api/weather once owGet has returned data
apiWeather(data) ==
    Reply(200, [ city |-> data.name, temp |-> data.temp ])

\* the handler of an upstream route from the settling of owGet to its return
afterUpstream(req, answer) ==
    LET got == owGet(answer)
    IN  IF got.threw THEN Caught(got.message)
        ELSE IF req.path = "/api/weather" THEN apiWeather(got.data)
        ELSE apiForecast(Trim(req.city), got.data)

\* the history variables after the response o to a request for path
RecordResponse(path, auth, body, o) ==
    /\ issuedTo' = IF path \in { "/auth/register", "/auth/login" } /\ "token" \in DOMAIN o.body
                   THEN Issued(o) ELSE issuedTo
    /\ revoked' = IF path = "/auth/logout" /\ o.status = 200
                  THEN revoked \cup ({ getAuthToken(auth) } \cap DOMAIN issuedTo) ELSE revoked
    /\ regs' = IF path = "/auth/register" /\ o.status = 201
               THEN [ regs EXCEPT ![Mailbox(body.email)] = @ + 1 ] ELSE regs
    /\ setPw' = IF path = "/auth/register" /\ o.status = 201
                THEN [ setPw EXCEPT ![Mailbox(body.email)] = << body.password >> ]
                ELSE IF path = "/auth/reset" /\ o.status = 200
                THEN [ setPw EXCEPT ![Mailbox(body.email)] = << body.newPassword >> ]
                ELSE setPw
    /\ rst' = IF path = "/auth/request-reset" /\ o.status = 200 /\ "resetToken" \in DOMAIN o.body
              THEN [ rst EXCEPT ![Mailbox(body.email)] =
                       [ cur |-> << o.body.resetToken >>,
                         prev |-> IF @.cur # << o.body.resetToken >> THEN @.cur ELSE NULL,
                         used |-> NULL ] ]
              ELSE IF path = "/auth/reset" /\ o.status = 200
              THEN [ rst EXCEPT ![Mailbox(body.email)].used = << Trim(body.resetToken) >> ]
              ELSE rst

ServingAlways == TRUE

\* the thread is free: no handler is inside pbkdf2Sync
Serving == \A c \in Conns : conn[c].at # "pbkdf2"

\* the handler returns having written o to res
Return(c, path, o) ==
    /\ Respond(o)
    /\ conn' = [ conn EXCEPT ![c] = [ at |-> "done", sent |-> conn[c].sent + 1 ] ]

\* a request arrives on connection c and its handler runs to its first await; threw
\* says that a call on the way (new URL, the store) throws
Dispatch(c, req, threw) ==
    /\ Serving
    /\ conn[c].at \in { "idle", "done" }
    /\ \E rows \in HistoryOrders(requireAuth(req.auth)) :
         LET d == IF threw THEN Returned(Caught("message of the exception"))
                  ELSE dispatch(req, rows)
         IN  IF d.at = "done"
             THEN /\ Respond(d.o[1])
                  /\ conn' = [ conn EXCEPT ![c] = [ at |-> "done", sent |-> 1 ] ]
                  /\ RecordResponse(req.path, req.auth, NULL, d.o[1])
             ELSE /\ conn' = [ conn EXCEPT ![c] = [ at |-> d.at, req |-> req,
                                                     userId |-> d.userId, sent |-> 0 ] ]
                  /\ UNCHANGED << users, searches, sessions, nextToken, hist >>
    /\ UNCHANGED << now, pending, ret, OW_KEY, front >>

\* what the handler suspended on connection c answers when readJsonBody settles with
\* raw: a rejection and an exception thrown later both end in the catch
resume(c, raw, threw) ==
    IF ~raw.json THEN Caught("Invalid JSON")
    ELSE IF threw THEN Caught("message of the exception")
    ELSE afterBody(conn[c].req.path, conn[c].userId, raw.body, "5a", << "e", "1" >>)

\* readJsonBody settles on connection c with the body raw; the handler runs on to its
\* return, or into pbkdf2Sync when it gets that far
BodyRead(c, raw, threw) ==
    /\ Serving
    /\ conn[c].at = "body"
    /\ LET path == conn[c].req.path
           o == resume(c, raw, threw)
       IN  IF raw.json /\ ~threw /\ derivesKey(path, raw.body)
           THEN /\ o.nextToken <= MaxTokens + 1
                /\ Len(o.users) + Len(o.searches) <= MaxRows
                /\ conn' = [ conn EXCEPT ![c] = [ at |-> "pbkdf2", req |-> conn[c].req,
                                                   body |-> raw.body, o |-> o, sent |-> 0 ] ]
                /\ UNCHANGED << users, searches, sessions, nextToken, hist >>
           ELSE /\ Return(c, path, o)
                /\ IF raw.json THEN RecordResponse(path, conn[c].req.auth, raw.body, o)
                   ELSE UNCHANGED hist
    /\ UNCHANGED << now, pending, ret, OW_KEY, front >>

\* pbkdf2Sync returns (or throws) and the handler runs on to its return
KeyDerived(c, threw) ==
    /\ conn[c].at = "pbkdf2"
    /\ LET o == IF threw THEN Caught("message of the exception") ELSE conn[c].o
       IN  /\ Return(c, conn[c].req.path, o)
           /\ RecordResponse(conn[c].req.path, conn[c].req.auth, conn[c].body, o)
    /\ UNCHANGED << now, pending, ret, OW_KEY, front >>

\* owGet settles on connection c and the handler runs on to its return
UpstreamAnswer(c, answer) ==
    /\ Serving
    /\ conn[c].at = "upstream"
    /\ Return(c, conn[c].req.path, afterUpstream(conn[c].req, answer))
    /\ UNCHANGED << now, pending, hist, ret, OW_KEY, front >>

\* ---- SpecDispatch: requests on MaxConns connections, every route, the bodies valid,
\* invalid and unparseable, the upstream answering, failing and refusing
Req(method, path, auth, city) == [ method |-> method, path |-> path, auth |-> auth, city |-> city ]

DispatchRequests ==
    { Req("OPTIONS", "/me", <<>>, <<>>), Req("GET", "/", <<>>, <<>>),
      Req("GET", "/nope", <<>>, <<>>), Req("DELETE", "/history", Bearer(<< 1 >>), <<>>),
      Req("POST", "/api/weather", <<>>, Oslo), Req("GET", "/auth/login", <<>>, <<>>),
      Req("GET", "/me", Bearer(<< 1 >>), <<>>), Req("GET", "/history", Bearer(<< 1 >>), <<>>),
      Req("POST", "/me/theme", Bearer(<< 1 >>), <<>>) }
    \cup { Req("POST", path, <<>>, <<>>) : path \in BodyPaths }
    \cup { Req(m[1], m[2], auth, <<>>) :
             m \in { << "PUT", "/me/theme" >>, << "POST", "/history" >> },
             auth \in { <<>>, Bearer(<< 1 >>) } }
    \cup { Req("GET", path, <<>>, city) : path \in UpstreamPaths, city \in { << " " >>, Oslo } }

\* the bodies a client sends to path: one that register, request-reset and reset
\* accept, the ones that lack a field or carry a password that is too short, a login
\* with a wrong password, a theme and a search that are refused
DispatchBodies(path) ==
    IF path = "/auth/register"
    THEN [ email : { <<"a">>, <<>> }, name : { <<"n">> }, password : { Pw1, PwShort } ]
    ELSE IF path = "/auth/login" THEN [ email : { <<"a">> }, password : { PwShort, <<>> } ]
    ELSE IF path = "/auth/request-reset" THEN [ email : { <<"a">>, <<>> } ]
    ELSE IF path = "/auth/reset"
    THEN [ email : { <<"a">> }, resetToken : { <<"e", "1">>, <<>> }, newPassword : { Pw2, PwShort } ]
    ELSE IF path = "/me/theme" THEN [ theme : { "neon", "" } ]
    ELSE [ city : { Oslo, <<>> }, lang : { <<"d", "e">> } ]

\* what the body of the request on connection c may turn out to be
RawBodies(c) ==
    IF conn[c].at # "body" THEN {}
    ELSE { InvalidJson } \cup { Json(body) : body \in DispatchBodies(conn[c].req.path) }

UpstreamData == [ name : { Oslo }, temp : { << 1250 >> }, list : { <<>>, << LongSample(1) >> } ]

UpstreamAnswers ==
    { [ fetched |-> FALSE ], [ fetched |-> TRUE, ok |-> FALSE ],
      [ fetched |-> TRUE, ok |-> TRUE, json |-> FALSE ] }
    \cup { [ fetched |-> TRUE, ok |-> TRUE, json |-> TRUE, data |-> data ] : data \in UpstreamData }

InitDispatch ==
    /\ users = <<>>
    /\ searches = <<>>
    /\ sessions = [ t \in {} |-> 0 ]
    /\ now = 0
    /\ nextToken = 1
    /\ pending = EmptyBag
    /\ issuedTo = [ t \in {} |-> 0 ]
    /\ revoked = {}
    /\ regs = [ e \in Emails |-> 0 ]
    /\ setPw = [ e \in Emails |-> NULL ]
    /\ rst = [ e \in Emails |-> NoReset ]
    /\ ret = NoCall
    /\ conn = [ c \in Conns |-> Idle ]
    /\ OW_KEY \in BOOLEAN
    /\ Mount(<<>>)

NextDispatch ==
    \/ \E c \in Conns, req \in DispatchRequests : Dispatch(c, req, FALSE)
    \/ \E c \in Conns : Dispatch(c, Req("GET", "/me", Bearer(<< 1 >>), <<>>), TRUE)
    \/ \E c \in Conns, threw \in BOOLEAN :
         \E raw \in RawBodies(c) : BodyRead(c, raw, threw)
    \/ \E c \in Conns, threw \in BOOLEAN : KeyDerived(c, threw)
    \/ \E c \in Conns, answer \in UpstreamAnswers : UpstreamAnswer(c, answer)

SpecDispatch == InitDispatch /\ [][NextDispatch]_vars

\* SpecDispatchLive: the client sends its body to the end, the upstream call settles
\* and pbkdf2Sync returns.  A settled promise waits in the queue of the event loop
\* while the thread is inside pbkdf2Sync and is run when its turn comes, however often
\* the thread is taken again (strong fairness).
SpecDispatchLive ==
    /\ SpecDispatch
    /\ \A c \in Conns :
         /\ SF_vars(\E threw \in BOOLEAN : \E raw \in RawBodies(c) : BodyRead(c, raw, threw))
         /\ SF_vars(\E answer \in UpstreamAnswers : UpstreamAnswer(c, answer))
         /\ WF_vars(\E threw \in BOOLEAN : KeyDerived(c, threw))

KnownPaths == BodyPaths \cup UpstreamPaths \cup { "/", "/auth/logout", "/me", "/me/theme", "/history" }
InFlight(c) == conn[c].at \in { "body", "upstream", "pbkdf2" }
SameStore(o) ==
    /\ o.users = users /\ o.searches = searches
    /\ o.sessions = sessions /\ o.nextToken = nextToken
IsError500(o) == o.status = 500 /\ DOMAIN o.body = { "error" } /\ SameStore(o)

MissingField(body, fields) == \E f \in fields : body[f] = <<>>

Malformed(path, raw) ==
    IF ~raw.json THEN TRUE
    ELSE IF path = "/auth/register"
    THEN MissingField(raw.body, { "email", "name", "password" }) \/ Len(raw.body.password) < 6
    ELSE IF path = "/auth/login" THEN MissingField(raw.body, { "email", "password" })
    ELSE IF path = "/auth/request-reset" THEN MissingField(raw.body, { "email" })
    ELSE IF path = "/auth/reset"
    THEN MissingField(raw.body, { "email", "resetToken", "newPassword" })
           \/ Len(raw.body.newPassword) < 6
    ELSE IF path = "/history" THEN MissingField(raw.body, { "city" })
    ELSE FALSE

\* C26: a request to POST /auth/register, /auth/login, /auth/request-reset,
\* /auth/reset, PUT /me/theme or POST /history whose body is not valid JSON, lacks a
\* required field or carries a password shorter than 6 characters is answered 400 and
\* changes no state.
MalformedInputIs400 ==
    \A c \in Conns : \A raw \in RawBodies(c) :
        Malformed(conn[c].req.path, raw) =>
            /\ resume(c, raw, FALSE).status = 400
            /\ SameStore(resume(c, raw, FALSE))

\* C27: GET /api/weather and GET /api/forecast answer 500 with a configuration error
\* whenever the upstream key is unset, 400 whenever the key is set and the city is
\* missing or blank, and 500 whenever the upstream call fails or returns a non-2xx
\* status; they answer 200 only after a successful upstream call, ask for no bearer
\* token, and never change users, searches or sessions.
WeatherRoutesGuarded ==
    /\ \A req \in DispatchRequests :
         (req.path \in UpstreamPaths /\ req.method = "GET") =>
             LET d == dispatch(req, <<>>)
             IN  /\ ~OW_KEY => d.at = "done" /\ d.o[1].status = 500 /\ SameStore(d.o[1])
                 /\ (OW_KEY /\ Trim(req.city) = <<>>) =>
                      d.at = "done" /\ d.o[1].status = 400 /\ SameStore(d.o[1])
                 /\ (OW_KEY /\ Trim(req.city) # <<>>) => d.at = "upstream"
                 /\ d = dispatch([ req EXCEPT !.auth = Bearer(ForgedToken) ], <<>>)
    /\ \A c \in Conns :
         conn[c].at = "upstream" =>
             /\ OW_KEY /\ Trim(conn[c].req.city) # <<>>
             /\ \A answer \in UpstreamAnswers :
                  LET o == afterUpstream(conn[c].req, answer)
                  IN  /\ SameStore(o)
                      /\ (~answer.fetched \/ ~answer.ok) => o.status = 500
                      /\ o.status \in { 200, 500 }
                      /\ o.status = 200 => answer.fetched /\ answer.ok

\* a weather request suspended in the upstream call beside a registered user
UpstreamSuspendedWitness ==
    \E c \in Conns :
        /\ conn[c].at = "upstream"
        /\ users # <<>>
        /\ \E answer \in UpstreamAnswers : afterUpstream(conn[c].req, answer).status = 200

ResetAt(c, at) == conn[c].at = at /\ conn[c].req.path = "/auth/reset"
ResetsWith(token) == { raw \in { Json(body) : body \in DispatchBodies("/auth/reset") } :
                         Trim(raw.body.resetToken) = token }

\* C28: under every interleaving of requests at their suspension points a mutation is
\* applied whole: between the check of a reset token and the write that spends it no
\* other handler runs, so of two concurrent POST /auth/reset requests with the same
\* valid token at most one succeeds, and the stored credential is always the one a
\* single successful request wrote.
ResetCheckThenWriteAtomic ==
    /\ [](\A c \in Conns :
            ResetAt(c, "pbkdf2") =>
                /\ \A d \in Conns \ { c } : conn[d].at # "pbkdf2"
                /\ \A i \in IdsByEmail(ToLowerCase(Trim(conn[c].body.email))) :
                       users[i].reset_token = << Trim(conn[c].body.resetToken) >>)
    /\ [][\A c \in Conns :
            LET email == Mailbox(conn[c].body.email)
                token == Trim(conn[c].body.resetToken)
            IN  (ResetAt(c, "pbkdf2") /\ conn'[c].at = "done" /\ rst'[email].used = << token >>) =>
                    /\ rst[email].used # << token >>
                    /\ \A d \in Conns \ { c } :
                           ResetAt(d, "body") =>
                               \A raw \in ResetsWith(token) : resume(d, raw, FALSE)'.status = 400]_vars
    /\ [](\A i \in DOMAIN users :
            /\ setPw[users[i].email] # NULL
            /\ \E salt \in Salts : users[i].password_hash = hashPassword(setPw[users[i].email][1], salt))

\* two resets suspended in readJsonBody while the token both will carry is valid
ConcurrentResetsWitness ==
    \E c, d \in Conns :
        /\ c # d /\ ResetAt(c, "body") /\ ResetAt(d, "body")
        /\ \E raw \in ResetsWith(<< "e", "1" >>) :
               resume(c, raw, FALSE).status = 200 /\ resume(d, raw, FALSE).status = 200

\* C29: no request blocks another: while a request is suspended in an upstream call
\* or is inside a key derivation, another request can be dispatched and handled.
NoRequestBlocksAnother ==
    \A c \in Conns :
        conn[c].at \in { "upstream", "pbkdf2" } =>
            \A d \in Conns \ { c } :
                conn[d].at \in { "idle", "done" } =>
                    ENABLED Dispatch(d, Req("GET", "/", <<>>, <<>>), FALSE)

\* ---- SpecHash: the calls of hashPassword of one run, in order.  Each call draws its
\* salt from crypto.randomBytes(16), which is taken collision-free as in makeToken: it
\* returns a value it has not returned before.
RandomHex == Salts \cup { "0f" }

Calls == IF ret.fn = "hashPassword calls" THEN ret.calls ELSE <<>>
Drawn == { Calls[i].salt : i \in DOMAIN Calls }

HashCall(password, salt) ==
    /\ ret.fn \in { "none", "hashPassword calls" }
    /\ salt \notin Drawn
    /\ ret' = [ fn |-> "hashPassword calls",
                calls |-> Append(Calls, [ password |-> password, salt |-> salt,
                                          val |-> hashPassword(password, salt) ]) ]
    /\ UNCHANGED << users, searches, sessions, now, nextToken, pending, hist, conn, OW_KEY, front >>

NextHash == \E password \in CodecPasswords, salt \in RandomHex : HashCall(password, salt)

SpecHash == Init /\ [][NextHash]_vars

\* C30: any two calls of hashPassword within a run, two calls with the same password
\* included, use distinct salts and return different encodings.
HashNeverRepeats ==
    \A i, j \in DOMAIN Calls :
        i # j => /\ Calls[i].salt # Calls[j].salt
                 /\ Calls[i].val # Calls[j].val
                 /\ Calls[i].val[4] # Calls[j].val[4]

\* the same password hashed twice
SamePasswordTwiceWitness ==
    \E i, j \in DOMAIN Calls : i # j /\ Calls[i].password = Calls[j].password

\* ---- SpecFrame: the reset flow of one user under a running clock, beside a second
\* user, sessions, a changed theme and a stored search
FrameRegisterBodies == [ email : { <<"a">>, <<"b">> }, name : { <<"n">> }, password : { Pw1 } ]
FrameResetBodies == [ email : { <<"a">> }, resetToken : ResetTokens, newPassword : { Pw2 } ]

NextFrame ==
    \/ \E body \in FrameRegisterBodies : Register(body, "5a")
    \/ \E resetToken \in ResetTokens : RequestReset([ email |-> <<" ", "A">> ], resetToken)
    \/ \E body \in FrameResetBodies : Reset(body, "c3")
    \/ Tick(RESET_TTL)
    \/ \E route \in { "theme", "history-post" } : Arrive(route, Bearer(<< 1 >>))
    \/ \E c \in BagToSet(pending) : ThemeBody(c, [ theme |-> "dark" ])
    \/ \E c \in BagToSet(pending) : HistoryPostBody(c, [ city |-> Oslo, lang |-> <<"r", "u">> ])

SpecFrame == Init /\ [][NextFrame]_vars

Registered(e) == \E i \in DOMAIN users : users[i].email = e
SameButReset(before, after) ==
    after = [ before EXCEPT !.reset_token = after.reset_token,
                            !.reset_expires = after.reset_expires ]

\* C31: POST /auth/request-reset for a registered email is answered 200 with
\* {success: true, resetToken, expires}, resetToken and expires being the values now
\* stored on that user's record and expires the time of the request plus 15 minutes;
\* the user's credential and theme, every other user's record, the searches and the
\* sessions are left as they were.
RequestResetPersistsAndFrames ==
    \A body \in RequestResetBodies, resetToken \in ResetTokens :
        (body.email # <<>> /\ Registered(Mailbox(body.email))) =>
            LET o == requestReset(body, resetToken)
                i == RowOf(Mailbox(body.email))
            IN  /\ o.status = 200
                /\ DOMAIN o.body = { "success", "resetToken", "expires" }
                /\ o.body.success = TRUE
                /\ o.body.resetToken = resetToken
                /\ o.body.expires = now + 15 * 60 * 1000
                /\ o.users[i].reset_token = << o.body.resetToken >>
                /\ o.users[i].reset_expires = << o.body.expires >>
                /\ DOMAIN o.users = DOMAIN users
                /\ SameButReset(users[i], o.users[i])
                /\ \A j \in DOMAIN users : j # i => o.users[j] = users[j]
                /\ o.searches = searches
                /\ o.sessions = sessions

\* a reset requested after the clock has moved, by a user with a session, the dark
\* theme and a stored search, beside a second user
RequestResetFramedWitness ==
    /\ Len(users) = 2
    /\ now > 0
    /\ users[RowOf(<<"a">>)].theme = "dark"
    /\ users[RowOf(<<"a">>)].reset_expires = << now + 15 * 60 * 1000 >>
    /\ \E t \in DOMAIN sessions : sessions[t] = RowOf(<<"a">>)

HasPendingReset(i) == users[i].reset_token # NULL /\ users[i].reset_expires # NULL
ResetExpired(i) == HasPendingReset(i) /\ now > users[i].reset_expires[1]
ResetWith(i, resetToken, newPassword) ==
    [ email |-> users[i].email, resetToken |-> resetToken, newPassword |-> newPassword ]

\* C33: a failing POST /auth/reset (unknown email, no pending token, wrong token,
\* expired token, invalid input) leaves every user record as it was, the credential,
\* the pending token and its expiry included; so after an attempt with a wrong token
\* the right token still succeeds while it has not expired, and an expired token is
\* refused and stays stored.
FailedResetChangesNothing ==
    /\ \A body \in ResetBodies, salt \in Salts :
         LET o == reset(body, salt)
         IN  o.status # 200 =>
                 /\ o.status = 400
                 /\ o.users = users
                 /\ o.searches = searches
                 /\ o.sessions = sessions
    /\ \A i \in DOMAIN users, newPassword \in ValidPasswords, salt \in Salts :
         /\ (HasPendingReset(i) /\ ~ResetExpired(i)) =>
              /\ \A wrong \in ResetTokens \ { users[i].reset_token[1] } :
                   /\ reset(ResetWith(i, wrong, newPassword), salt).body = Err("invalid token")
                   /\ reset(ResetWith(i, wrong, newPassword), salt).users = users
              /\ reset(ResetWith(i, users[i].reset_token[1], newPassword), salt).status = 200
         /\ ResetExpired(i) =>
              \A resetToken \in ResetTokens :
                  /\ reset(ResetWith(i, resetToken, newPassword), salt).status = 400
                  /\ reset(ResetWith(i, resetToken, newPassword), salt).users[i].reset_token
                       = users[i].reset_token

\* the token of a user still stored after it has expired, refused as expired when it
\* is presented and as invalid when the other token is
ExpiredResetKeptWitness ==
    \E i \in DOMAIN users :
        /\ ResetExpired(i)
        /\ users[i].reset_token = << <<"e", "1">> >>
        /\ reset(ResetWith(i, <<"e", "1">>, Pw2), "c3").body = Err("token expired")
        /\ reset(ResetWith(i, <<"f", "2">>, Pw2), "c3").body = Err("invalid token")

SameButCredential(before, after) ==
    after = [ before EXCEPT !.password_hash = after.password_hash,
                            !.reset_token = after.reset_token,
                            !.reset_expires = after.reset_expires ]

\* C34: a successful POST /auth/reset changes the credential and the reset fields of
\* that user and nothing else: the sessions are left as they are, so every session
\* issued for the user before the reset resolves to the user after it, and the user's
\* theme, id, email and searches, and all other users, are unchanged.
ResetKeepsSessions ==
    \A body \in ResetBodies, salt \in Salts :
        LET o == reset(body, salt)
            i == RowOf(Mailbox(body.email))
        IN  o.status = 200 =>
                /\ DOMAIN o.users = DOMAIN users
                /\ SameButCredential(users[i], o.users[i])
                /\ o.users[i].password_hash = hashPassword(body.newPassword, salt)
                /\ o.users[i].reset_token = NULL /\ o.users[i].reset_expires = NULL
                /\ \A j \in DOMAIN users : j # i => o.users[j] = users[j]
                /\ o.searches = searches
                /\ o.sessions = sessions
                /\ \A t \in DOMAIN sessions :
                     sessions[t] = i => (o.sessions[t] = i /\ requireAuth(Bearer(t)) = i)

\* after a reset that set a new password, the session the user registered with still
\* resolves to the user, whose dark theme and stored search are in place
SessionSurvivesResetWitness ==
    /\ setPw[<<"a">>] = << Pw2 >>
    /\ rst[<<"a">>].used # NULL
    /\ Registered(<<"a">>)
    /\ \E t \in DOMAIN sessions :
         /\ sessions[t] = RowOf(<<"a">>)
         /\ me(Bearer(t)).status = 200
         /\ me(Bearer(t)).body.user[1].theme = "dark"
    /\ \E n \in DOMAIN searches : searches[n].user_id = RowOf(<<"a">>)

\* the outcomes of every handler other than register and login, on every input
OtherOutcomes ==
    { logout(auth) : auth \in AuthHeaders }
      \cup { requestReset(body, resetToken) : body \in RequestResetBodies, resetToken \in ResetTokens }
      \cup { reset(body, salt) : body \in ResetBodies, salt \in Salts }
      \cup { me(auth) : auth \in AuthHeaders }
      \cup UNION { { historyGet(auth, rows) : rows \in HistoryOrders(requireAuth(auth)) } :
                     auth \in AuthHeaders }
      \cup { meTheme(userId, body) : userId \in DOMAIN users, body \in ThemeBodies }
      \cup { historyPost(userId, body) : userId \in DOMAIN users, body \in HistoryBodies }

KeepsUsers(o) ==
    /\ DOMAIN users \subseteq DOMAIN o.users
    /\ \A i \in DOMAIN users : o.users[i].id = users[i].id

InsertsSessionFor(o, status) ==
    IF o.status = status
    THEN /\ o.body.token \notin DOMAIN sessions
         /\ DOMAIN o.sessions = DOMAIN sessions \cup { o.body.token }
         /\ o.sessions[o.body.token] = o.body.user.id
         /\ \A t \in DOMAIN sessions : o.sessions[t] = sessions[t]
    ELSE o.sessions = sessions

\* C35: every token of the session registry maps to the id of an existing user record
\* (ids are positive and no handler deletes a user), so GET /me with a token that
\* resolves returns a user record; a session is inserted by a register answered 201
\* or a login answered 200 and by nothing else.
SessionsNameUsers ==
    /\ \A t \in DOMAIN sessions :
         /\ sessions[t] > 0
         /\ sessions[t] \in DOMAIN users
         /\ users[sessions[t]].id = sessions[t]
         /\ me(Bearer(t)).status = 200
         /\ me(Bearer(t)).body.user # NULL
         /\ me(Bearer(t)).body.user[1].id = sessions[t]
    /\ \A body \in RegisterBodies, salt \in Salts :
         KeepsUsers(register(body, salt)) /\ InsertsSessionFor(register(body, salt), 201)
    /\ \A body \in LoginBodies :
         KeepsUsers(login(body)) /\ InsertsSessionFor(login(body), 200)
    /\ \A o \in OtherOutcomes :
         KeepsUsers(o) /\ DOMAIN o.sessions \subseteq DOMAIN sessions

\* two sessions of one user, from the registration and from a login, after the
\* user's password was reset
TwoSessionsOneUserWitness ==
    /\ Cardinality(DOMAIN sessions) = 2
    /\ \A t \in DOMAIN sessions : sessions[t] = RowOf(<<"a">>)
    /\ setPw[<<"a">>] = << Pw2 >>

SpecPage == Init /\ [][NextPage]_vars

SameShown == page'.now = page.now /\ page'.forecast = page.forecast /\ page'.city = page.city
Advanced(k) == k \notin DOMAIN calls' \/ calls'[k] # calls[k]

\* now, forecast and city are written together, by a search whose two answers are in
ShownTogether ==
    (page'.now # page.now \/ page'.forecast # page.forecast \/ page'.from.now # page.from.now) =>
        \E k \in Searching :
            /\ calls[k].at = "forecast" /\ calls[k].w # NULL /\ calls[k].w.search = k
            /\ k \in DOMAIN calls' /\ calls'[k].at = "save"
            /\ page'.now = << calls[k].w >>
            /\ page'.city = calls[k].q
            /\ page'.from = [ now |-> k, forecast |-> k, city |-> k ]
            /\ page'.err = page.err

\* a search ending in its weather or forecast call leaves the three and sets err
FailedSearchKeepsShown ==
    \A k \in Searching :
        (calls[k].at \in { "weather", "forecast" } /\ k \notin DOMAIN calls') =>
            (SameShown /\ page'.err # "")

\* the history save and refresh of a search, failing or not, leave err and the three
HistoryFailureSilent ==
    \A k \in Searching :
        (calls[k].at \in { "save", "refresh" } /\ Advanced(k)) =>
            (SameShown /\ page'.err = page.err)

\* C36: the current conditions, the forecast and the city of the weather page come
\* from one and the same search (the city unless it has been typed over since):
\* fetchWeather writes the three together once the weather call and the forecast call
\* of one search have both succeeded, a search in which either fails leaves the three
\* and sets the error message, and the history save and refresh never touch the error
\* message or the three, in every interleaving of overlapping searches.
ShownFromOneSearch ==
    /\ [](/\ page.from.now = page.from.forecast
          /\ page.from.city \in { 0, page.from.now }
          /\ page.now # NULL => page.now[1].search = page.from.now)
    /\ [][ShownTogether /\ FailedSearchKeepsShown /\ HistoryFailureSilent]_vars

\* the second search shown while the first, which wrote before it, is still saving its
\* history and after the third has failed
OverlappingSearchesWitness ==
    /\ gestures = 2
    /\ page.from = [ now |-> 2, forecast |-> 2, city |-> 2 ]
    /\ page.city = Oslo
    /\ page.err # ""
    /\ AutoFetchCall \in DOMAIN calls /\ calls[AutoFetchCall].at = "save"
    /\ 3 \notin DOMAIN calls

\* C37: the loading flag of the weather page is true exactly while a search is in
\* flight: false whenever no fetchWeather call is pending, and true until the last
\* pending call has finished, whatever starts the calls.
LoadingWhileSearching == page.loading <=> Searching # {}

\* the half that holds: without a pending fetchWeather call the flag is false
IdleNotLoading == Searching = {} => ~page.loading

\* ---- SpecFavs: addFavourite, from every list the page can have stored (no city
\* twice, FAV_LIMIT entries at most), with every city typed
FavCities == { << c >> : c \in { "a", "b", "c", "d", "e", "f", "g", "h", "i", "j", "k" } }
FavTexts == FavCities \cup { <<>>, << " " >>, << " ", "c", " " >> }
StoredLists ==
    { SubSeq(<< <<"a">>, <<"b">>, <<"c">>, <<"d">>, <<"e">>, <<"f">>, <<"g">>, <<"h">>, <<"i">>,
                <<"j">> >>, 1, n) : n \in 0 .. FAV_LIMIT }

InitFavs ==
    /\ users = <<>>
    /\ searches = <<>>
    /\ sessions = [ t \in {} |-> 0 ]
    /\ now = 0
    /\ nextToken = 1
    /\ pending = EmptyBag
    /\ issuedTo = [ t \in {} |-> 0 ]
    /\ revoked = {}
    /\ regs = [ e \in Emails |-> 0 ]
    /\ setPw = [ e \in Emails |-> NULL ]
    /\ rst = [ e \in Emails |-> NoReset ]
    /\ ret = NoCall
    /\ conn = [ c \in Conns |-> Idle ]
    /\ OW_KEY = TRUE
    /\ \E stored \in StoredLists : Mount(stored)

NextFavs ==
    \/ \E text \in FavTexts : Type(text)
    \/ AddFavourite

SpecFavs == InitFavs /\ [][NextFavs]_vars

Cities(list) == { list[i] : i \in DOMAIN list }
NoDuplicates(list) == \A i, j \in DOMAIN list : list[i] = list[j] => i = j
\* list without the city c, the order of the others kept
Without(list, c) == SelectSeq(list, LAMBDA x : x # c)
FirstTen(list) == SubSeq(list, 1, IF Len(list) < 10 THEN Len(list) ELSE 10)

\* C38: after any sequence of addFavourite from a stored list without duplicates the
\* favourites hold no city twice and at most 10 entries, and at most the first 6 are
\* displayed; adding a blank city changes nothing, adding a city puts it, trimmed,
\* first, and adding a city already in the list moves it to the front, the length and
\* the order of the others as before.
FavouritesKept ==
    /\ NoDuplicates(page.favs)
    /\ Len(page.favs) <= 10
    /\ Len(favourites) <= 6
    /\ \A i \in DOMAIN favourites : favourites[i] = page.favs[i]
    /\ Len(page.favs) <= 6 => favourites = page.favs
    /\ LET c == Trim(page.city)
           next == addFavourite
       IN  /\ c = <<>> => next = page.favs
           /\ c # <<>> =>
                /\ next[1] = c
                /\ NoDuplicates(next)
                /\ next = FirstTen(<< c >> \o Without(page.favs, c))
           /\ (c # <<>> /\ c \in Cities(page.favs)) =>
                /\ Len(next) = Len(page.favs)
                /\ Cities(next) = Cities(page.favs)

\* a full list after two additions: a new city, which pushed the last one out, and
\* then, typed between blanks, a city of the list, which moved to the front
FavouritesFullWitness ==
    /\ gestures = 2
    /\ Len(page.favs) = 10
    /\ page.favs[1] = <<"c">> /\ page.favs[2] = <<"k">> /\ page.favs[3] = <<"a">>
    /\ page.city = << " ", "c", " " >>
    /\ <<"j">> \notin Cities(page.favs)
    /\ localStorage.te_favs_user = page.favs
====
